---- MODULE Spec2Model ----
(***************************************************************************)
(* A model of the SNES emulator core: the 65816 interpreter                *)
(* (src/core/CPU65816.ts), the bus and DMA engine (src/core/Memory.ts, the *)
(* multi-channel Memory class), the PPU register file (src/core/PPU.ts),   *)
(* the APU mailbox and the controller shift registers (src/core/Input.ts). *)
(*                                                                         *)
(* Byte arrays (WRAM, the I/O shadow, VRAM, CGRAM, OAM, the ROM image) are *)
(* functions on the cells that differ from their background value, so a   *)
(* cell that was never written reads as its background (0 for the typed    *)
(* arrays, the image's fill pattern for a ROM).                            *)
(***************************************************************************)
EXTENDS Integers, Sequences, FiniteSets, TLC

VARIABLES cpu,      \* CPU65816: registers, flags, cycles
          mem,      \* Memory: wram, rom, romSize, romType, ioRegisters, dmaChannels
          ppu,      \* PPU: register file, vram, cgram, oam
          apu,      \* APU: ioPorts
          input,    \* Input: live state, latch and shift index of both controllers
          snes,     \* SNES: running, masterClock, frameCount, animationFrameId,
                    \* whether a frame callback is registered
          host,     \* the browser side: pending timers and animation-frame
                    \* requests, and what the frame callback has been handed
          last,     \* the host call that produced this state, with its return value
          calls,    \* number of host calls made so far
          obs       \* what the host has seen at the CGRAM and controller ports

vars == <<cpu, mem, ppu, apu, input, snes, host, last, calls, obs>>

-----------------------------------------------------------------------------
(* Bounds of the exploration.                                              *)

\* Host calls (loadROM, reset, cpu.step) explored per behaviour of Spec.
MaxCalls == 4

\* Instructions of the program placed at the reset entry point of a ROM image.
MaxProgLen == 2

\* Largest transfer size programmed into a DMA channel.
MaxDmaSize == 2

-----------------------------------------------------------------------------
(* Bit arithmetic on naturals (JavaScript's &, |, <<, >> on the value      *)
(* ranges the program uses).                                               *)

RECURSIVE BitAnd(_, _)
BitAnd(a, b) ==
    IF a = 0 \/ b = 0 THEN 0
    ELSE (IF a % 2 = 1 /\ b % 2 = 1 THEN 1 ELSE 0) + 2 * BitAnd(a \div 2, b \div 2)

BitOr(a, b) == a + b - BitAnd(a, b)

\* x & ~mask
BitClear(x, mask) == x - BitAnd(x, mask)

\* (x & (1 << i)) !== 0
Bit(x, i) == (x \div (2 ^ i)) % 2 = 1

Lo8(x) == x % 256
Hi8(x) == (x \div 256) % 256

-----------------------------------------------------------------------------
(* Typed arrays.                                                           *)

\* a[i] of a zero-initialised typed array
Get(a, i) == IF i \in DOMAIN a THEN a[i] ELSE 0

\* a[i] = v on a typed array of `size` elements of `width` bits: the value is
\* truncated to the element width and a store outside the array is dropped.
Put(a, i, v, size, width) ==
    LET x == v % (2 ^ width) IN
    IF i < 0 \/ i >= size THEN a
    ELSE IF x = 0 THEN [k \in DOMAIN a \ {i} |-> a[k]]
    ELSE [k \in DOMAIN a \cup {i} |-> IF k = i THEN x ELSE a[k]]

Empty == [k \in {} |-> 0]

\* the element of a singleton
Only(S) == CHOOSE x \in S : TRUE

WramSize == 128 * 1024
IoSize == 17280          \* 0x4380
CgramSize == 512
OamSize == 544
VramWords == 32 * 1024

-----------------------------------------------------------------------------
(* ROM images.  An image is [len, base, bytes, seed]: `len` bytes, of which *)
(* the bytes listed in `bytes` are given and every other byte a is         *)
(* Fill(seed, a); `base` is the number of leading bytes loadROM stripped.  *)

Fill(seed, a) == (a + 3 * (a \div 256) + seed) % 256

RawByte(img, a) == IF a \in DOMAIN img.bytes THEN img.bytes[a] ELSE Fill(img.seed, a)

\* rom[a] of the loaded image
RomAt(rom, a) == RawByte(rom, a + rom.base)

NoRom == [len |-> 0, base |-> 0, bytes |-> Empty, seed |-> 0]

-----------------------------------------------------------------------------
(* Input (src/core/Input.ts).                                              *)

ButtonMasks == {32768, 16384, 8192, 4096, 2048, 1024, 512, 256, 128, 64, 32, 16}

InputInit ==
    [controller1State |-> 65535, controller2State |-> 65535,
     controller1Latch |-> 0, controller2Latch |-> 0,
     controller1Index |-> 0, controller2Index |-> 0]

pressButton(inp, controller, button) ==
    IF controller = 1
    THEN [inp EXCEPT !.controller1State = BitClear(@, button)]
    ELSE IF controller = 2
    THEN [inp EXCEPT !.controller2State = BitClear(@, button)]
    ELSE inp

releaseButton(inp, controller, button) ==
    IF controller = 1
    THEN [inp EXCEPT !.controller1State = BitOr(@, button)]
    ELSE IF controller = 2
    THEN [inp EXCEPT !.controller2State = BitOr(@, button)]
    ELSE inp

latchControllers(inp) ==
    [inp EXCEPT !.controller1Latch = inp.controller1State,
                !.controller2Latch = inp.controller2State,
                !.controller1Index = 0,
                !.controller2Index = 0]

\* readControllerBit taking the bit from the live state instead of the latch
readControllerBitLive(inp, controller) ==
    IF controller = 1
    THEN (inp.controller1State \div (2 ^ (15 - inp.controller1Index))) % 2
    ELSE IF controller = 2
    THEN (inp.controller2State \div (2 ^ (15 - inp.controller2Index))) % 2
    ELSE 1

\* the bit readController returns
readControllerBit(inp, controller) ==
    IF controller = 1
    THEN (inp.controller1Latch \div (2 ^ (15 - inp.controller1Index))) % 2
    ELSE IF controller = 2
    THEN (inp.controller2Latch \div (2 ^ (15 - inp.controller2Index))) % 2
    ELSE 1

\* the Input object after readController
readControllerNext(inp, controller) ==
    IF controller = 1
    THEN [inp EXCEPT !.controller1Index = (@ + 1) % 16]
    ELSE IF controller = 2
    THEN [inp EXCEPT !.controller2Index = (@ + 1) % 16]
    ELSE inp

-----------------------------------------------------------------------------
(* APU mailbox (src/unnamed/part_002).                                     *)

\* audio is the state of the AudioContext: "none" until init() creates it
ApuInit == [ioPorts |-> Empty, audio |-> "none"]

\* APU.init, in a browser that has the Web Audio API
ApuInitAudio(a) == [a EXCEPT !.audio = "running"]

\* APU.suspend
suspend(a) == IF a.audio = "running" THEN [a EXCEPT !.audio = "suspended"] ELSE a

\* APU.resume
resume(a) == IF a.audio = "suspended" THEN [a EXCEPT !.audio = "running"] ELSE a

writePort(a, port, value) ==
    IF port >= 0 /\ port < 4
    THEN [a EXCEPT !.ioPorts = Put(@, port, value % 256, 4, 8)]
    ELSE a

readPort(a, port) == IF port >= 0 /\ port < 4 THEN Get(a.ioPorts, port) ELSE 0

ApuReset(a) == [a EXCEPT !.ioPorts = Empty]

-----------------------------------------------------------------------------
(* PPU register file (src/core/PPU.ts).  vram is the Uint16Array view of   *)
(* Memory's 64 KiB buffer, indexed by word.                                *)

PpuInit ==
    [brightness |-> 15, vmain |-> 0, vramAddress |-> 0, cgramAddress |-> 0,
     oamAddress |-> 0, cgramFirstWrite |-> TRUE, oamFirstWrite |-> TRUE,
     bgMode |-> 0, bg3Priority |-> FALSE, bgTileSize |-> Empty,
     bgTilemapAddr |-> Empty, bgCharAddr |-> Empty,
     bgHScroll |-> Empty, bgVScroll |-> Empty, bgScrollPrev |-> Empty,
     mainScreenDesignation |-> 31, subScreenDesignation |-> 0,
     mosaicSize |-> 1, mosaicEnable |-> 0,
     scanline |-> 0, frameCounter |-> 0, vblank |-> FALSE,
     vram |-> Empty, cgram |-> Empty, oam |-> Empty]

PpuReset(p) ==
    [p EXCEPT !.scanline = 0, !.frameCounter = 0, !.brightness = 15,
              !.vramAddress = 0, !.cgramAddress = 0, !.oamAddress = 0,
              !.bgMode = 0]

screenHeight == 224

\* PPU.renderScanline.  Of the object it changes the scanline counter, the
\* vblank flag and the frame counter, and on a visible line the pixel
\* buffers (screenBuffer, layerBuffer, priorityBuffer); the pixel buffers
\* are not part of the PPU record kept here (renderPixel below gives their
\* contents for the line), and none of the routines that fill them assigns
\* the three counters.
renderScanline(p) ==
    LET next == p.scanline + 1
        raised == IF next = screenHeight THEN TRUE ELSE p.vblank
    IN  IF next >= 262
        THEN [p EXCEPT !.scanline = 0, !.vblank = FALSE, !.frameCounter = @ + 1]
        ELSE [p EXCEPT !.scanline = next, !.vblank = raised]

screenWidth == 256

\* PPU.getColor: the 15-bit CGRAM word of a colour index as 8-bit channels
getColor(p, index) ==
    LET addr == BitAnd(index * 2, 511)
        word == BitOr(Get(p.cgram, addr), Get(p.cgram, addr + 1) * 256)
    IN  [r |-> BitAnd(word, 31) * 8,
         g |-> BitAnd(word \div 32, 31) * 8,
         b |-> BitAnd(word \div 1024, 31) * 8]

\* the two bitplanes of a VRAM word at a bit: p0 | (p1 << 1)
planes(w, bit) ==
    (IF Bit(w, bit) THEN 1 ELSE 0) + (IF Bit(w, 8 + bit) THEN 2 ELSE 0)

getTilePixel2bpp(p, charBase, tileNum, row, col) ==
    LET charAddr == charBase + tileNum * 8
    IN  planes(Get(p.vram, BitAnd(charAddr + row, 32767)), 7 - col)

getTilePixel4bpp(p, charBase, tileNum, row, col) ==
    LET charAddr == charBase + tileNum * 16
    IN  planes(Get(p.vram, BitAnd(charAddr + row, 32767)), 7 - col)
        + 4 * planes(Get(p.vram, BitAnd(charAddr + 8 + row, 32767)), 7 - col)

getTilePixel8bpp(p, charBase, tileNum, row, col) ==
    LET charAddr == charBase + tileNum * 32
    IN  planes(Get(p.vram, BitAnd(charAddr + row, 32767)), 7 - col)
        + 4 * planes(Get(p.vram, BitAnd(charAddr + 8 + row, 32767)), 7 - col)
        + 16 * planes(Get(p.vram, BitAnd(charAddr + 16 + row, 32767)), 7 - col)
        + 64 * planes(Get(p.vram, BitAnd(charAddr + 24 + row, 32767)), 7 - col)

(* The pixel buffers.  Every routine of renderScanline loops over the       *)
(* columns of the line and its work at column x reads and writes the three *)
(* buffers at (y, x) only, so the line is given column by column: a pixel  *)
(* [r, g, b, a, layer, priority] holds screenBuffer, layerBuffer and       *)
(* priorityBuffer at one position.                                         *)

\* the layerBuffer and priorityBuffer fills, then clearScanlineToBackdrop
clearScanlineToBackdrop(p) ==
    LET color == getColor(p, 0)
    IN  [r |-> color.r, g |-> color.g, b |-> color.b, a |-> 255,
         layer |-> 0, priority |-> 0]

\* a plotted pixel: the colour of a colour index, opaque
plot(p, px, finalColorIndex) ==
    LET color == getColor(p, finalColorIndex)
    IN  [px EXCEPT !.r = color.r, !.g = color.g, !.b = color.b, !.a = 255]

\* renderLayer at column x up to `if (colorIndex !== 0)`: the tilemap entry
\* and the colour index of the tile's pixel
tilePixel(p, bgIndex, y, x, bpp) ==
    LET scrollX == Get(p.bgHScroll, bgIndex)
        scrollY == Get(p.bgVScroll, bgIndex)
        mapBase == Get(p.bgTilemapAddr, bgIndex)
        charBase == Get(p.bgCharAddr, bgIndex)
        vY == BitAnd(y + scrollY, 1023)
        vX == BitAnd(x + scrollX, 1023)
        tileX == BitAnd(vX \div 8, 31)
        tileY == BitAnd(vY \div 8, 31)
        mapAddr == mapBase + tileY * 32 + tileX
        tileEntry == Get(p.vram, BitAnd(mapAddr, 32767))
        tileNum == BitAnd(tileEntry, 1023)
        row == IF Bit(tileEntry, 15) THEN 7 - BitAnd(vY, 7) ELSE BitAnd(vY, 7)
        col == IF Bit(tileEntry, 14) THEN 7 - BitAnd(vX, 7) ELSE BitAnd(vX, 7)
    IN  [tileEntry |-> tileEntry,
         colorIndex |->
             CASE bpp = 2 -> getTilePixel2bpp(p, charBase, tileNum, row, col)
               [] bpp = 4 -> getTilePixel4bpp(p, charBase, tileNum, row, col)
               [] bpp = 8 -> getTilePixel8bpp(p, charBase, tileNum, row, col)
               [] OTHER -> 0]

\* PPU.renderLayer at column x
renderLayer(p, px, bgIndex, y, x, bpp, priority) ==
    LET t == tilePixel(p, bgIndex, y, x, bpp)
        palette == BitAnd(t.tileEntry \div 1024, 7)
    IN  IF t.colorIndex # 0 /\ priority >= px.priority
        THEN [plot(p, px, palette * 2 ^ bpp + t.colorIndex)
                  EXCEPT !.priority = priority, !.layer = bgIndex]
        ELSE px

\* renderMode0 .. renderMode7: the renderLayer calls of each mode in the
\* order they are made, as <<bgIndex, bpp, priority>>
modeLayers ==
    << <<<<3, 2, 0>>, <<2, 2, 0>>, <<1, 2, 0>>, <<0, 2, 0>>>>,
       <<<<2, 2, 0>>, <<1, 4, 1>>, <<0, 4, 2>>>>,
       <<<<1, 4, 0>>, <<0, 4, 1>>>>,
       <<<<1, 4, 0>>, <<0, 8, 1>>>>,
       <<<<1, 2, 0>>, <<0, 8, 1>>>>,
       <<<<1, 2, 0>>, <<0, 4, 1>>>>,
       <<<<0, 4, 0>>>>,
       <<<<0, 8, 0>>>> >>

\* PPU.renderMode at column x, from the i-th call of the mode on: a layer
\* is drawn when its bit of the main screen designation is set
RECURSIVE renderMode(_, _, _, _, _)
renderMode(p, px, y, x, i) ==
    LET layers == modeLayers[p.bgMode + 1]
        l == layers[i]
    IN  IF i > Len(layers) THEN px
        ELSE renderMode(p,
                        IF Bit(p.mainScreenDesignation, l[1])
                        THEN renderLayer(p, px, l[1], y, x, l[2], l[3])
                        ELSE px,
                        y, x, i + 1)

\* renderSprites at column x up to `if (colorIndex !== 0)` for one sprite:
\* whether the sprite has a pixel there, its colour index, palette and
\* priority
spritePixel(p, sprite, y, x) ==
    LET oamIndex == sprite * 4
        spriteX == Get(p.oam, oamIndex)
        spriteY == Get(p.oam, oamIndex + 1)
        tile == Get(p.oam, oamIndex + 2)
        attr == Get(p.oam, oamIndex + 3)
        row == y - spriteY
        col == x - spriteX
        covers == /\ y >= spriteY /\ y < spriteY + 8
                  /\ col >= 0 /\ col < 8 /\ x < screenWidth
    IN  [colorIndex |-> IF covers
                        THEN getTilePixel4bpp(p, 24576, tile, row, col)
                        ELSE 0,
         palette |-> BitAnd(attr \div 2, 7) + 8,
         priority |-> BitAnd(attr \div 16, 3)]

\* PPU.renderSprites at column x: the iterations of the loop for the n
\* sprites from `sprite` downwards, the upper half of them before the lower
RECURSIVE renderSprites(_, _, _, _, _, _)
renderSprites(p, px, y, x, sprite, n) ==
    LET s == spritePixel(p, sprite, y, x)
        half == n \div 2
    IN  IF n = 1
        THEN IF s.colorIndex # 0 /\ s.priority >= px.priority
             THEN [plot(p, px, s.palette * 16 + s.colorIndex)
                       EXCEPT !.priority = s.priority + 10]
             ELSE px
        ELSE Only({renderSprites(p, q, y, x, sprite - half, n - half) :
                       q \in {renderSprites(p, px, y, x, sprite, half)}})

\* PPU.applyBrightness at one pixel.  brightness / 15.0 is exact for 0 and
\* 15; for the other levels the floor is taken of the exact quotient.
applyBrightness(p, px) ==
    [px EXCEPT !.r = (@ * p.brightness) \div 15,
               !.g = (@ * p.brightness) \div 15,
               !.b = (@ * p.brightness) \div 15]

\* the pixel buffers at (y, x) once renderScanline has drawn the visible
\* line y
renderPixel(p, y, x) ==
    applyBrightness(p,
        renderSprites(p, renderMode(p, clearScanlineToBackdrop(p), y, x, 1),
                      y, x, 127, 128))

vramSteps == <<1, 32, 128, 128>>

\* vramWrite that steps the address on either byte
vramWriteBothBytes(p, byteSel, value) ==
    LET addr == BitAnd(p.vramAddress, 32767)
        old == Get(p.vram, addr)
        new == IF byteSel = 0 THEN BitOr(BitAnd(old, 65280), value)
               ELSE BitOr(BitAnd(old, 255), value * 256)
    IN  [p EXCEPT !.vram = Put(@, addr, new, VramWords, 16),
                  !.vramAddress = BitAnd(@ + vramSteps[BitAnd(p.vmain, 3) + 1], 65535)]

\* vramWrite without `& 0x7FFF`
vramWriteNoWrap(p, byteSel, value) ==
    LET addr == p.vramAddress
        current == Get(p.vram, addr)
        word == IF byteSel = 0
                THEN BitOr(BitAnd(current, 65280), value)
                ELSE BitOr(BitAnd(current, 255), value * 256)
        incMode == BitAnd(p.vmain, 128) \div 128
        step == vramSteps[BitAnd(p.vmain, 3) + 1]
    IN  [p EXCEPT !.vram = Put(@, addr, word, VramWords, 16),
                  !.vramAddress = IF incMode = byteSel
                                  THEN BitAnd(@ + step, 65535) ELSE @]

vramWrite(p, byteSel, value) ==
    LET addr == BitAnd(p.vramAddress, 32767)
        current == Get(p.vram, addr)
        word == IF byteSel = 0
                THEN BitOr(BitAnd(current, 65280), value)
                ELSE BitOr(BitAnd(current, 255), value * 256)
        incMode == BitAnd(p.vmain, 128) \div 128
        step == vramSteps[BitAnd(p.vmain, 3) + 1]
    IN  [p EXCEPT !.vram = Put(@, addr, word, VramWords, 16),
                  !.vramAddress = IF incMode = byteSel
                                  THEN BitAnd(@ + step, 65535) ELSE @]

\* BGnHOFS / BGnVOFS double write
bgScrollWrite(p, field, bg, value) ==
    LET v == BitAnd(BitOr(value * 256, Get(p.bgScrollPrev, bg)), 1023)
    IN  [p EXCEPT ![field] = Put(@, bg, v, 4, 16),
                  !.bgScrollPrev = Put(@, bg, value, 4, 8)]

\* cgramWrite whose index does not wrap at 256
cgramWriteNoWrap(p, value) ==
    LET addr == BitAnd(p.cgramAddress * 2, 511) IN
    IF p.cgramFirstWrite
    THEN [p EXCEPT !.cgram = Put(@, addr, value, CgramSize, 8),
                   !.cgramFirstWrite = FALSE]
    ELSE [p EXCEPT !.cgram = Put(@, addr + 1, value, CgramSize, 8),
                   !.cgramFirstWrite = TRUE,
                   !.cgramAddress = @ + 1]

\* case 0x2122 of writeRegister
cgramWrite(p, value) ==
    LET addr == BitAnd(p.cgramAddress * 2, 511) IN
    IF p.cgramFirstWrite
    THEN [p EXCEPT !.cgram = Put(@, addr, value, CgramSize, 8),
                   !.cgramFirstWrite = FALSE]
    ELSE [p EXCEPT !.cgram = Put(@, addr + 1, value, CgramSize, 8),
                   !.cgramFirstWrite = TRUE,
                   !.cgramAddress = BitAnd(@ + 1, 255)]

writeRegister(p, address, value) ==
    LET reg == BitAnd(address, 65535) IN
    CASE reg = 8448 ->                                      \* 0x2100 INIDISP
           [p EXCEPT !.brightness = BitAnd(value, 15)]
      [] reg = 8453 ->                                      \* 0x2105 BGMODE
           [p EXCEPT !.bgMode = BitAnd(value, 7),
                     !.bg3Priority = Bit(value, 3),
                     !.bgTileSize =
                        [k \in 0..3 |-> IF Bit(value, 4 + k) THEN 16 ELSE 8]]
      [] reg = 8454 ->                                      \* 0x2106 MOSAIC
           [p EXCEPT !.mosaicSize = BitAnd(value \div 16, 15) + 1,
                     !.mosaicEnable = BitAnd(value, 15)]
      [] reg \in 8455..8458 ->                              \* 0x2107-0x210A
           [p EXCEPT !.bgTilemapAddr =
                        Put(@, reg - 8455, BitAnd(value, 252) * 256, 4, 16)]
      [] reg = 8459 ->                                      \* 0x210B
           [p EXCEPT !.bgCharAddr =
                        Put(Put(@, 0, BitAnd(value, 15) * 4096, 4, 16),
                            1, BitAnd(value, 240) * 256, 4, 16)]
      [] reg = 8460 ->                                      \* 0x210C
           [p EXCEPT !.bgCharAddr =
                        Put(Put(@, 2, BitAnd(value, 15) * 4096, 4, 16),
                            3, BitAnd(value, 240) * 256, 4, 16)]
      [] reg \in {8461, 8463, 8465, 8467} ->                \* BGnHOFS
           bgScrollWrite(p, "bgHScroll", (reg - 8461) \div 2, value)
      [] reg \in {8462, 8464, 8466, 8468} ->                \* BGnVOFS
           bgScrollWrite(p, "bgVScroll", (reg - 8462) \div 2, value)
      [] reg = 8469 -> [p EXCEPT !.vmain = value]           \* 0x2115 VMAIN
      [] reg = 8470 ->                                      \* 0x2116
           [p EXCEPT !.vramAddress = BitOr(BitAnd(@, 65280), value)]
      [] reg = 8471 ->                                      \* 0x2117
           [p EXCEPT !.vramAddress = BitOr(BitAnd(value, 255) * 256, BitAnd(@, 255))]
      [] reg = 8472 -> vramWrite(p, 0, value)               \* 0x2118
      [] reg = 8473 -> vramWrite(p, 1, value)               \* 0x2119
      [] reg = 8481 ->                                      \* 0x2121 CGADD
           [p EXCEPT !.cgramAddress = value, !.cgramFirstWrite = TRUE]
      [] reg = 8482 -> cgramWrite(p, value)                 \* 0x2122 CGDATA
      [] reg = 8450 ->                                      \* 0x2102 OAMADDL
           [p EXCEPT !.oamAddress = BitOr(BitAnd(@, 512), value),
                     !.oamFirstWrite = TRUE]
      [] reg = 8451 ->                                      \* 0x2103 OAMADDH
           [p EXCEPT !.oamAddress = BitOr(BitAnd(value, 1) * 512, BitAnd(@, 511)),
                     !.oamFirstWrite = TRUE]
      [] reg = 8452 ->                                      \* 0x2104 OAMDATA
           [p EXCEPT !.oam = Put(@, p.oamAddress, value, OamSize, 8),
                     !.oamAddress = BitAnd(@ + 1, 543)]
      [] reg = 8492 -> [p EXCEPT !.mainScreenDesignation = value]   \* 0x212C
      [] reg = 8493 -> [p EXCEPT !.subScreenDesignation = value]    \* 0x212D
      [] OTHER -> p

-----------------------------------------------------------------------------
(* Memory (src/core/Memory.ts, the multi-channel class).  The operators    *)
(* below work on a machine record                                          *)
(*   [mem, ppu, apu, input, log, exc]                                      *)
(* holding the Memory object and the three objects its I/O dispatch calls; *)
(* log is the sequence of DMA transfers started during the current host    *)
(* call (the console.log line of executeDMA) and exc tells whether the     *)
(* call has thrown.                                                        *)

DmaChannelInit ==
    [params |-> 0, bAddress |-> 0, aAddress |-> 0, aBank |-> 0, size |-> 0,
     hdmaBank |-> 0]

\* Memory after its constructor and the setPPU/setAPU/setInput calls of the
\* SNES constructor.
MemInit ==
    [wram |-> Empty, rom |-> NoRom, hasRom |-> FALSE, romSize |-> 0,
     romType |-> "LoROM", ioRegisters |-> Empty,
     hasPPU |-> TRUE, hasAPU |-> TRUE, hasInput |-> TRUE,
     dmaChannels |-> [c \in 0..7 |-> DmaChannelInit]]

Bank(address) == (address \div 65536) % 256
Offset(address) == address % 65536

parseHeaderAt(rom, romLen, offset) ==
    IF offset + 48 > romLen THEN FALSE
    ELSE LET checksum == RomAt(rom, offset + 46) + 256 * RomAt(rom, offset + 47)
             complement == RomAt(rom, offset + 44) + 256 * RomAt(rom, offset + 45)
         IN  checksum + complement - 2 * BitAnd(checksum, complement) = 65535

detectROMType(rom, romSize) ==
    LET lo == parseHeaderAt(rom, romSize, 32704)
        hi == parseHeaderAt(rom, romSize, 65472)
    IN  IF lo /\ ~hi THEN "LoROM"
        ELSE IF hi /\ ~lo THEN "HiROM"
        ELSE IF romSize > 2097152 THEN "HiROM" ELSE "LoROM"

\* Memory.loadROM: a 512-byte copier header is stripped, then the mapping is
\* detected.
MemLoadROM(me, data) ==
    LET rom == IF data.len % 1024 = 512 THEN [data EXCEPT !.base = 512] ELSE data
        size == rom.len - rom.base
    IN  [me EXCEPT !.rom = rom, !.hasRom = TRUE, !.romSize = size,
                   !.romType = detectROMType(rom, size)]

\* LoRomAddr with the bank shifted as in the HiROM formula
LoRomAddrShift16(bank, offset) == BitAnd(bank, 127) * 65536 + BitAnd(offset, 32767)

LoRomAddr(bank, offset) == BitAnd(bank, 127) * 32768 + BitAnd(offset, 32767)

HiRomAddr(bank, offset) == BitAnd(bank, 63) * 65536 + offset

\* the index into rom that readROM computes before the modulo
readROMAddr(romType, bank, offset) ==
    IF romType = "LoROM"
    THEN IF bank <= 125 /\ offset >= 32768 THEN LoRomAddr(bank, offset)
         ELSE IF bank >= 128 /\ bank <= 253 /\ offset >= 32768
              THEN LoRomAddr(bank, offset)
         ELSE IF bank >= 254 /\ offset >= 32768 THEN LoRomAddr(bank, offset)
         ELSE 0
    ELSE IF bank >= 192 \/ (bank >= 64 /\ bank < 128)
         THEN HiRomAddr(bank, offset)
         ELSE 0

readROM(me, bank, offset) ==
    IF ~me.hasRom THEN 255
    ELSE RomAt(me.rom, readROMAddr(me.romType, bank, offset) % me.romSize)

\* the value readIO returns
readIOVal(m, offset) ==
    IF offset = 16406 /\ m.mem.hasInput THEN readControllerBit(m.input, 1)
    ELSE IF offset = 16407 /\ m.mem.hasInput THEN readControllerBit(m.input, 2)
    ELSE IF offset >= 8512 /\ offset <= 8515 /\ m.mem.hasAPU
         THEN readPort(m.apu, offset - 8512)
    ELSE IF offset = 8503 THEN 0
    ELSE IF offset = 8508 THEN 0
    ELSE IF offset = 8509 THEN 0
    ELSE IF offset = 8510 THEN 1
    ELSE IF offset = 8511 THEN 2
    ELSE Get(m.mem.ioRegisters, offset - 8192)

\* the machine after readIO
readIONext(m, offset) ==
    IF offset = 16406 /\ m.mem.hasInput
    THEN [m EXCEPT !.input = readControllerNext(@, 1)]
    ELSE IF offset = 16407 /\ m.mem.hasInput
    THEN [m EXCEPT !.input = readControllerNext(@, 2)]
    ELSE m

\* WramIndex without the bank: 0x7F aliases 0x7E
WramIndexOneBank(bank, offset) == offset

WramIndex(bank, offset) == (bank - 126) * 65536 + offset

\* the value Memory.read returns
ReadVal(m, address) ==
    LET bank == Bank(address)
        offset == Offset(address)
    IN  IF bank = 126 \/ bank = 127 THEN Get(m.mem.wram, WramIndex(bank, offset))
        ELSE IF offset < 8192 THEN Get(m.mem.wram, offset)
        ELSE IF offset >= 8192 /\ offset < 24576 THEN readIOVal(m, offset)
        ELSE readROM(m.mem, bank, offset)

\* the machine after Memory.read
ReadNext(m, address) ==
    LET bank == Bank(address)
        offset == Offset(address)
    IN  IF bank = 126 \/ bank = 127 THEN m
        ELSE IF offset < 8192 THEN m
        ELSE IF offset >= 8192 /\ offset < 24576 THEN readIONext(m, offset)
        ELSE m

\* the loop of executeDMA from iteration i on.  A B-bus to A-bus transfer
\* calls ppu.readRegister, which PPU does not define: the call throws a
\* TypeError on the first iteration.
RECURSIVE dmaLoop(_, _, _, _, _)
dmaLoop(m, dma, srcAddr, size, i) ==
    IF i >= size THEN m
    ELSE IF BitAnd(dma.params, 128) = 0
    THEN LET data == ReadVal(m, srcAddr + i)
             m1 == ReadNext(m, srcAddr + i)
             m2 == [m1 EXCEPT !.ppu = writeRegister(@, 8448 + dma.bAddress, data)]
         IN  IF m2.exc THEN m2 ELSE dmaLoop(m2, dma, srcAddr, size, i + 1)
    ELSE [m EXCEPT !.exc = TRUE]

executeDMA(m, channel) ==
    LET dma == m.mem.dmaChannels[channel]
        srcAddr == dma.aBank * 65536 + dma.aAddress
        size == IF dma.size = 0 THEN 65536 ELSE dma.size
        clearSize(done) ==
            IF done.exc THEN done
            ELSE [done EXCEPT !.mem.dmaChannels[channel].size = 0]
    IN  IF ~m.mem.hasPPU THEN m
        ELSE clearSize(dmaLoop([m EXCEPT !.log = Append(@, [channel |-> channel,
                                                            size |-> size])],
                               dma, srcAddr, size, 0))

\* the for loop over the bits of the value written to 0x420B
RECURSIVE dmaEnable(_, _, _)
dmaEnable(m, value, i) ==
    IF i >= 8 \/ m.exc THEN m
    ELSE dmaEnable(IF Bit(value, i) THEN executeDMA(m, i) ELSE m, value, i + 1)

dmaRegisterWrite(ch, reg, value) ==
    CASE reg = 0 -> [ch EXCEPT !.params = value]
      [] reg = 1 -> [ch EXCEPT !.bAddress = value]
      [] reg = 2 -> [ch EXCEPT !.aAddress = BitOr(BitAnd(@, 65280), value)]
      [] reg = 3 -> [ch EXCEPT !.aAddress = BitOr(value * 256, BitAnd(@, 255))]
      [] reg = 4 -> [ch EXCEPT !.aBank = value]
      [] reg = 5 -> [ch EXCEPT !.size = BitOr(BitAnd(@, 65280), value)]
      [] reg = 6 -> [ch EXCEPT !.size = BitOr(value * 256, BitAnd(@, 255))]
      [] OTHER -> ch

handleDMA(m, offset, value) ==
    LET enable(m1) == IF offset = 16907 THEN dmaEnable(m1, value, 0) ELSE m1
    IN  enable(IF offset >= 17152 /\ offset < 17280
               THEN [m EXCEPT !.mem.dmaChannels[(offset - 17152) \div 16] =
                                 dmaRegisterWrite(@, BitAnd(offset, 15), value)]
               ELSE m)

writeIO(m, offset, value) ==
    LET toPPU(m1) ==
            IF offset >= 8448 /\ offset <= 8499 /\ m1.mem.hasPPU
            THEN [m1 EXCEPT !.ppu = writeRegister(@, offset, value)] ELSE m1
        toAPU(m2) ==
            IF offset >= 8512 /\ offset <= 8515 /\ m2.mem.hasAPU
            THEN [m2 EXCEPT !.apu = writePort(@, offset - 8512, value)] ELSE m2
        toInput(m3) ==
            IF offset = 16406 /\ m3.mem.hasInput
            THEN [m3 EXCEPT !.input = latchControllers(@)] ELSE m3
    IN  handleDMA(toInput(toAPU(toPPU(
            [m EXCEPT !.mem.ioRegisters = Put(@, offset - 8192, value, IoSize, 8)]))),
            offset, value)

\* the machine after Memory.write
Write(m, address, value) ==
    LET bank == Bank(address)
        offset == Offset(address)
    IN  IF bank = 126 \/ bank = 127
        THEN [m EXCEPT !.mem.wram = Put(@, WramIndex(bank, offset), value, WramSize, 8)]
        ELSE IF offset < 8192
        THEN [m EXCEPT !.mem.wram = Put(@, offset, value, WramSize, 8)]
        ELSE IF offset >= 8192 /\ offset < 24576 THEN writeIO(m, offset, value)
        ELSE m

-----------------------------------------------------------------------------
(* CPU65816 (src/core/CPU65816.ts).  The operators work on a context       *)
(* [cpu, m]: the CPU object and the machine its memory calls act on.  An   *)
(* operator that returns a value yields [c, v]: the context after it and   *)
(* the value.  Once m.exc is set (a memory.write threw) the rest of the    *)
(* instruction is skipped.                                                 *)

VECTOR_NMI == 65514
VECTOR_RESET == 65532
VECTOR_IRQ_BRK == 65518

CpuInit ==
    [registers |-> [A |-> 0, X |-> 0, Y |-> 0, SP |-> 511, PC |-> 0,
                    D |-> 0, DB |-> 0, PB |-> 0, P |-> 52],
     flags |-> [N |-> FALSE, V |-> FALSE, M |-> TRUE, X |-> TRUE,
                D |-> FALSE, I |-> TRUE, Z |-> FALSE, C |-> FALSE, E |-> TRUE],
     cycles |-> 0]

R(c) == c.cpu.registers
F(c) == c.cpu.flags

SetR(c, r, v) == IF c.m.exc THEN c ELSE [c EXCEPT !.cpu.registers[r] = v]
SetF(c, f, b) == IF c.m.exc THEN c ELSE [c EXCEPT !.cpu.flags[f] = b]

\* memory.read(address) from the CPU
memRead(c, address) ==
    [c |-> IF c.m.exc THEN c ELSE [c EXCEPT !.m = ReadNext(@, address)],
     v |-> ReadVal(c.m, address)]

\* memory.write(address, value) from the CPU
memWrite(c, address, value) ==
    IF c.m.exc THEN c ELSE [c EXCEPT !.m = Write(@, address, value)]

\* fetchByte without `this.cycles += 1`
fetchByteNoCycle(c) ==
    LET advance(rd) ==
            [c |-> [rd.c EXCEPT !.cpu.registers.PC = BitAnd(R(c).PC + 1, 65535)],
             v |-> rd.v]
    IN  advance(memRead(c, BitOr(R(c).PB * 65536, R(c).PC)))

fetchByte(c) ==
    LET advance(rd) ==
            [c |-> [rd.c EXCEPT !.cpu.registers.PC = BitAnd(R(c).PC + 1, 65535),
                                !.cpu.cycles = @ + 1],
             v |-> rd.v]
    IN  advance(memRead(c, BitOr(R(c).PB * 65536, R(c).PC)))

\* (high << 8) | low, after the read that produced high
word(low, high) == [c |-> high.c, v |-> BitOr(high.v * 256, low.v)]

fetchWord(c) ==
    LET fetchHigh(low) == word(low, fetchByte(low.c))
    IN  fetchHigh(fetchByte(c))

\* ((SP + d) & 0xFFFF) | (E ? 0x0100 : 0)
stackMove(c, d) ==
    BitOr((R(c).SP + d) % 65536, IF F(c).E THEN 256 ELSE 0)

push8(c, value) ==
    SetR(memWrite(c, R(c).SP, value % 256), "SP", stackMove(c, -1))

push16(c, value) == push8(push8(c, (value \div 256) % 256), value % 256)

pop8(c) ==
    LET readAtSP(moved) == memRead(moved, R(moved).SP)
    IN  readAtSP(SetR(c, "SP", stackMove(c, 1)))

pop16(c) ==
    LET popHigh(low) == word(low, pop8(low.c))
    IN  popHigh(pop8(c))

updateNZ8(c, value) ==
    [c EXCEPT !.cpu.flags.N = Bit(value, 7), !.cpu.flags.Z = (value % 256 = 0)]

updateNZ16(c, value) ==
    [c EXCEPT !.cpu.flags.N = Bit(value, 15), !.cpu.flags.Z = (value % 65536 = 0)]

\* narrow ? updateNZ8(value) : updateNZ16(value)
updateNZ(c, narrow, value) ==
    IF narrow THEN updateNZ8(c, value) ELSE updateNZ16(c, value)

getStatusRegister(fl) ==
    (IF fl.N THEN 128 ELSE 0) + (IF fl.V THEN 64 ELSE 0) + (IF fl.M THEN 32 ELSE 0)
    + (IF fl.X THEN 16 ELSE 0) + (IF fl.D THEN 8 ELSE 0) + (IF fl.I THEN 4 ELSE 0)
    + (IF fl.Z THEN 2 ELSE 0) + (IF fl.C THEN 1 ELSE 0)

setStatusRegister(c, value) ==
    [c EXCEPT !.cpu.flags.N = Bit(value, 7), !.cpu.flags.V = Bit(value, 6),
              !.cpu.flags.M = Bit(value, 5), !.cpu.flags.X = Bit(value, 4),
              !.cpu.flags.D = Bit(value, 3), !.cpu.flags.I = Bit(value, 2),
              !.cpu.flags.Z = Bit(value, 1), !.cpu.flags.C = Bit(value, 0)]

\* narrow ? fetchByte() : fetchWord()
fetchImm(c, narrow) == IF narrow THEN fetchByte(c) ELSE fetchWord(c)

\* narrow ? pop8() : pop16()
popReg(c, narrow) == IF narrow THEN pop8(c) ELSE pop16(c)

\* narrow ? push8(value) : push16(value)
pushReg(c, narrow, value) == IF narrow THEN push8(c, value) ELSE push16(c, value)

\* registers[dst] = r.v with the flags updateNZ sets, r being the [c, v] of
\* the fetch, read or pop that produced the value
setNZ(r, dst, narrow) == updateNZ(SetR(r.c, dst, r.v), narrow, r.v)

\* registers[dst] = r.v, flags untouched
setReg(r, dst) == SetR(r.c, dst, r.v)

\* memory.write(r.v, value), r being the [c, v] of the operand fetch
storeAt(r, value) == memWrite(r.c, r.v, value)

\* memory.read(r.v), r being the [c, v] of the operand fetch
loadAt(r) == memRead(r.c, r.v)

\* the eight conditional branches and BRA
branch(c, taken) ==
    LET jump(f) ==
            IF taken
            THEN SetR(f.c, "PC",
                      (R(f.c).PC + (IF f.v > 127 THEN f.v - 256 ELSE f.v)) % 65536)
            ELSE f.c
    IN  jump(fetchByte(c))

\* opcodes whose case only fetches one, two or three operand bytes
Fetch1 ==
    {2, 4, 6, 17, 18, 19, 20, 21, 22, 23, 33, 35, 36, 37, 38, 39, 65, 66,
     67, 69, 70, 71, 97, 99, 101, 102, 103, 129, 131, 132, 134, 135, 145,
     146, 147, 148, 149, 150, 151, 161, 163, 164, 166, 167, 177, 178, 179,
     180, 181, 182, 183, 193, 195, 196, 197, 198, 199, 209, 210, 211, 212,
     213, 214, 215, 225, 227, 228, 229, 230, 231, 241, 242, 243, 245, 246,
     247}
Fetch2 ==
    {12, 14, 25, 28, 29, 30, 44, 45, 46, 68, 77, 78, 93, 94, 98, 108, 109,
     110, 124, 125, 126, 130, 140, 142, 153, 158, 172, 173, 174, 185, 188,
     189, 190, 204, 205, 206, 217, 220, 221, 222, 236, 237, 238, 244, 249,
     252, 253, 254}
Fetch3 ==
    {15, 31, 34, 47, 79, 95, 111, 127, 159, 175, 191, 207, 223, 239, 255}

\* opcodes 0x00..0xFF without a case in executeInstruction
DefaultCase ==
    (49 .. 55) \cup (57 .. 63) \cup (81 .. 87) \cup {89} \cup (113 .. 119)
        \cup {121}

RECURSIVE fetchN(_, _)
fetchN(c, n) == IF n = 0 THEN c ELSE fetchN(fetchByte(c).c, n - 1)

\* A = op(A, operand) with the flags of the result: ORA and AND
logicA(r, narrow, bits) ==
    updateNZ(SetR(r.c, "A", bits), narrow, bits)

\* the accumulator shifts and rotates                (0x0A, 0x2A, 0x4A, 0x6A)
shiftA(c, carryOut, a) ==
    updateNZ8(SetR(SetF(c, "C", carryOut), "A", a), a)

\* register-to-register transfers that set N and Z
transfer(c, dst, value, narrow) == updateNZ(SetR(c, dst, value), narrow, value)

\* PLA, PLX, PLY
pull(c, dst, narrow) == setNZ(popReg(c, narrow), dst, narrow)

\* LDA/LDX/LDY immediate
loadImm(c, dst, narrow) == setNZ(fetchImm(c, narrow), dst, narrow)

\* INX, INY, DEX, DEY
stepIndex(c, reg, d) ==
    LET v == (R(c)[reg] + d) % (IF F(c).X THEN 256 ELSE 65536)
    IN  updateNZ(SetR(c, reg, v), F(c).X, v)

BRK(c) ==
    LET pushP(p1) == push8(p1, getStatusRegister(F(p1)))
        readHigh(lo) == word(lo, memRead(lo.c, VECTOR_IRQ_BRK + 1))
    IN  setReg(readHigh(memRead(SetF(pushP(push16(c, R(c).PC + 1)), "I", TRUE),
                                VECTOR_IRQ_BRK)),
               "PC")

\* XCE without `SP = (SP & 0xFF) | 0x0100`
XCEKeepingSP(c) ==
    LET x == [c EXCEPT !.cpu.flags.C = F(c).E, !.cpu.flags.E = F(c).C]
    IN  IF F(x).E
        THEN [x EXCEPT !.cpu.flags.M = TRUE, !.cpu.flags.X = TRUE]
        ELSE x

XCE(c) ==
    LET x == [c EXCEPT !.cpu.flags.C = F(c).E, !.cpu.flags.E = F(c).C]
    IN  IF F(x).E
        THEN [x EXCEPT !.cpu.flags.M = TRUE, !.cpu.flags.X = TRUE,
                       !.cpu.registers.SP = BitOr(BitAnd(@, 255), 256)]
        ELSE x

\* REP with `& mask` for `& ~mask`
REPKeepingMask(c) ==
    LET keep(f) == setStatusRegister(f.c, BitAnd(getStatusRegister(F(f.c)), f.v))
    IN  keep(fetchByte(c))

REP(c) ==
    LET clear(f) == setStatusRegister(f.c, BitClear(getStatusRegister(F(f.c)), f.v))
    IN  clear(fetchByte(c))

SEP(c) ==
    LET set(f) == setStatusRegister(f.c, BitOr(getStatusRegister(F(f.c)), f.v))
    IN  set(fetchByte(c))

ADC(c) ==
    LET add(f) ==
            LET result == R(c).A + f.v + (IF F(c).C THEN 1 ELSE 0)
                a == IF F(c).M THEN result % 256 ELSE result % 65536
            IN  updateNZ(SetR(SetF(f.c, "C", result > (IF F(c).M THEN 255 ELSE 65535)),
                              "A", a),
                         F(c).M, a)
    IN  add(fetchImm(c, F(c).M))

STAabs(c) ==
    LET store(f) ==
            IF F(c).M THEN memWrite(f.c, f.v, R(c).A % 256)
            ELSE memWrite(memWrite(f.c, f.v, R(c).A % 256),
                          f.v + 1, (R(c).A \div 256) % 256)
    IN  store(fetchWord(c))

JSR(c) ==
    LET call(f) == SetR(push16(f.c, R(f.c).PC - 1), "PC", f.v)
    IN  call(fetchWord(c))

PLP(c) ==
    LET restore(p) == setStatusRegister(p.c, p.v)
    IN  restore(pop8(c))

RTI(c) == setReg(pop16(PLP(c)), "PC")

\* PC = pop16() + 1
RTS(c) ==
    LET return(p) == SetR(p.c, "PC", p.v + 1)
    IN  return(pop16(c))

RTL(c) == setReg(pop8(RTS(c)), "PB")

STAlong(c) ==
    LET store(bank) ==
            LET at(addr) == memWrite(addr.c, BitOr(bank.v * 65536, addr.v), R(c).A % 256)
            IN  at(fetchWord(bank.c))
    IN  store(fetchByte(c))

executeInstruction(c, opcode) ==
    CASE opcode = 0 -> BRK(c)
      [] opcode \in {1, 3, 5, 7} ->                                     \* ORA, 8-bit
           LET ora(f) == logicA(f, TRUE, BitOr(R(c).A, f.v)) IN ora(fetchByte(c))
      [] opcode = 8 -> push8(c, getStatusRegister(F(c)))                \* PHP
      [] opcode = 9 ->                                                  \* ORA #
           LET ora(f) == logicA(f, F(c).M, BitOr(R(c).A, f.v))
           IN  ora(fetchImm(c, F(c).M))
      [] opcode = 10 -> shiftA(c, Bit(R(c).A, 7), (R(c).A * 2) % 256)   \* ASL A
      [] opcode = 11 -> push16(c, R(c).D)                               \* PHD
      [] opcode = 13 ->                                                 \* ORA abs
           LET ora(rd) == logicA(rd, TRUE, BitOr(R(c).A, rd.v))
           IN  ora(loadAt(fetchWord(c)))
      [] opcode = 16 -> branch(c, ~F(c).N)                              \* BPL
      [] opcode = 24 -> SetF(c, "C", FALSE)                             \* CLC
      [] opcode = 26 ->                                                 \* INC A
           LET a == (R(c).A + 1) % 256 IN updateNZ8(SetR(c, "A", a), a)
      [] opcode = 27 -> SetR(c, "SP", R(c).A)                           \* TCS
      [] opcode = 32 -> JSR(c)
      [] opcode = 40 -> PLP(c)
      [] opcode = 41 ->                                                 \* AND #
           LET and(f) == logicA(f, F(c).M, BitAnd(R(c).A, f.v))
           IN  and(fetchImm(c, F(c).M))
      [] opcode = 42 ->                                                 \* ROL A
           shiftA(c, Bit(R(c).A, 7),
                  BitOr(R(c).A * 2, IF F(c).C THEN 1 ELSE 0) % 256)
      [] opcode = 43 -> setReg(pop16(c), "D")                           \* PLD
      [] opcode = 48 -> branch(c, F(c).N)                               \* BMI
      [] opcode = 56 -> SetF(c, "C", TRUE)                              \* SEC
      [] opcode = 64 -> RTI(c)
      [] opcode = 72 -> pushReg(c, F(c).M, R(c).A)                      \* PHA
      [] opcode \in {73, 137, 201, 233} -> fetchImm(c, F(c).M).c        \* EOR/BIT/CMP/SBC #
      [] opcode = 74 -> shiftA(c, Bit(R(c).A, 0), (R(c).A \div 2) % 256) \* LSR A
      [] opcode = 75 -> push8(c, R(c).PB)                               \* PHK
      [] opcode = 76 -> setReg(fetchWord(c), "PC")                      \* JMP abs
      [] opcode = 80 -> branch(c, ~F(c).V)                              \* BVC
      [] opcode = 88 -> SetF(c, "I", FALSE)                             \* CLI
      [] opcode = 90 -> pushReg(c, F(c).X, R(c).Y)                      \* PHY
      [] opcode = 91 -> SetR(c, "D", R(c).A)                            \* TCD
      [] opcode = 92 -> setReg(fetchWord(fetchN(c, 3)), "PC")           \* JMP long
      [] opcode = 96 -> RTS(c)
      [] opcode = 100 -> storeAt(fetchByte(c), 0)                       \* STZ dp
      [] opcode = 104 -> pull(c, "A", F(c).M)                           \* PLA
      [] opcode = 105 -> ADC(c)
      [] opcode = 106 ->                                                \* ROR A
           shiftA(c, Bit(R(c).A, 0),
                  BitOr(R(c).A \div 2, IF F(c).C THEN 128 ELSE 0) % 256)
      [] opcode = 107 -> RTL(c)
      [] opcode = 112 -> branch(c, F(c).V)                              \* BVS
      [] opcode = 120 -> SetF(c, "I", TRUE)                             \* SEI
      [] opcode = 122 -> pull(c, "Y", F(c).X)                           \* PLY
      [] opcode = 123 -> SetR(c, "A", R(c).D)                           \* TDC
      [] opcode = 128 -> branch(c, TRUE)                                \* BRA
      [] opcode = 133 -> storeAt(fetchByte(c), R(c).A % 256)            \* STA dp
      [] opcode = 136 -> stepIndex(c, "Y", -1)                          \* DEY
      [] opcode = 138 -> transfer(c, "A", R(c).X, F(c).M)               \* TXA
      [] opcode = 139 -> push8(c, R(c).DB)                              \* PHB
      [] opcode = 141 -> STAabs(c)
      [] opcode = 143 -> STAlong(c)
      [] opcode = 144 -> branch(c, ~F(c).C)                             \* BCC
      [] opcode = 152 -> transfer(c, "A", R(c).Y, F(c).M)               \* TYA
      [] opcode = 154 -> SetR(c, "SP", R(c).X)                          \* TXS
      [] opcode = 155 -> transfer(c, "Y", R(c).X, F(c).X)               \* TXY
      [] opcode = 156 -> storeAt(fetchWord(c), 0)                       \* STZ abs
      [] opcode = 157 -> storeAt(fetchWord(c), R(c).A % 256)            \* STA abs,X
      [] opcode = 160 -> loadImm(c, "Y", F(c).X)                        \* LDY #
      [] opcode = 162 -> loadImm(c, "X", F(c).X)                        \* LDX #
      [] opcode = 165 -> setNZ(loadAt(fetchByte(c)), "A", TRUE)         \* LDA dp
      [] opcode = 168 -> transfer(c, "Y", R(c).A, F(c).X)               \* TAY
      [] opcode = 169 -> loadImm(c, "A", F(c).M)                        \* LDA #
      [] opcode = 170 -> transfer(c, "X", R(c).A, F(c).X)               \* TAX
      [] opcode = 171 -> setReg(pop8(c), "DB")                          \* PLB
      [] opcode = 176 -> branch(c, F(c).C)                              \* BCS
      [] opcode = 184 -> SetF(c, "V", FALSE)                            \* CLV
      [] opcode = 186 -> transfer(c, "X", R(c).SP, F(c).X)              \* TSX
      [] opcode = 187 -> transfer(c, "X", R(c).Y, F(c).X)               \* TYX
      [] opcode \in {192, 224} -> fetchImm(c, F(c).X).c                 \* CPY #, CPX #
      [] opcode = 194 -> REP(c)
      [] opcode = 200 -> stepIndex(c, "Y", 1)                           \* INY
      [] opcode = 202 -> stepIndex(c, "X", -1)                          \* DEX
      [] opcode = 208 -> branch(c, ~F(c).Z)                             \* BNE
      [] opcode = 216 -> SetF(c, "D", FALSE)                            \* CLD
      [] opcode = 218 -> pushReg(c, F(c).X, R(c).X)                     \* PHX
      [] opcode = 226 -> SEP(c)
      [] opcode = 232 -> stepIndex(c, "X", 1)                           \* INX
      [] opcode = 235 ->                                                \* XBA
           LET low == R(c).A % 256
               high == (R(c).A \div 256) % 256
           IN  updateNZ8(SetR(c, "A", low * 256 + high), high)
      [] opcode = 240 -> branch(c, F(c).Z)                              \* BEQ
      [] opcode = 248 -> SetF(c, "D", TRUE)                             \* SED
      [] opcode = 250 -> pull(c, "X", F(c).X)                           \* PLX
      [] opcode = 251 -> XCE(c)
      [] opcode \in Fetch1 -> fetchN(c, 1)
      [] opcode \in Fetch2 -> fetchN(c, 2)
      [] opcode \in Fetch3 -> fetchN(c, 3)
      [] OTHER -> c                               \* WAI, STP, NOP and the default case

\* CPU65816.step: the context after the instruction; the call returns
\* cycles - startCycles unless the instruction threw.
step(c) ==
    LET execute(f) == executeInstruction(f.c, f.v) IN execute(fetchByte(c))

\* reset with `this.registers.SP = 0x01FF` left out
resetKeepingSP(c) ==
    LET readHigh(lo) == word(lo, memRead(lo.c, VECTOR_RESET + 1))
        start(vector) ==
            [vector.c EXCEPT !.cpu.registers.PC =
                                 IF vector.v = 0 THEN 32768 ELSE vector.v,
                             !.cpu.registers.PB = 0,
                             !.cpu.flags.E = TRUE, !.cpu.flags.M = TRUE,
                             !.cpu.flags.X = TRUE, !.cpu.flags.I = TRUE,
                             !.cpu.registers.D = 0,
                             !.cpu.cycles = 0]
    IN  start(readHigh(memRead(c, VECTOR_RESET)))

\* reset reading the vector high byte first: PC = (low << 8) | high
resetBigEndianVector(c) ==
    LET readHigh(lo) == word(memRead(lo.c, VECTOR_RESET + 1), lo)
        start(vector) ==
            [vector.c EXCEPT !.cpu.registers.PC =
                                 IF vector.v = 0 THEN 32768 ELSE vector.v,
                             !.cpu.registers.PB = 0,
                             !.cpu.flags.E = TRUE, !.cpu.flags.M = TRUE,
                             !.cpu.flags.X = TRUE, !.cpu.flags.I = TRUE,
                             !.cpu.registers.SP = 511,
                             !.cpu.registers.D = 0,
                             !.cpu.cycles = 0]
    IN  start(readHigh(memRead(c, VECTOR_RESET)))

\* CPU65816.reset.  The sixteen debug reads at 0x8000.. are ROM reads and
\* leave the machine as it is.
reset(c) ==
    LET readHigh(lo) == word(lo, memRead(lo.c, VECTOR_RESET + 1))
        start(vector) ==
            [vector.c EXCEPT !.cpu.registers.PC =
                                 IF vector.v = 0 THEN 32768 ELSE vector.v,
                             !.cpu.registers.PB = 0,
                             !.cpu.flags.E = TRUE, !.cpu.flags.M = TRUE,
                             !.cpu.flags.X = TRUE, !.cpu.flags.I = TRUE,
                             !.cpu.registers.SP = 511,
                             !.cpu.registers.D = 0,
                             !.cpu.cycles = 0]
    IN  start(readHigh(memRead(c, VECTOR_RESET)))

-----------------------------------------------------------------------------
(* The system (src/unnamed/part_003, class SNES) and its host calls.       *)

SnesInit ==
    [running |-> FALSE, masterClock |-> 0, frameCount |-> 0,
     animationFrameId |-> 0, hasFrameCallback |-> FALSE]

\* the browser when the page has loaded: no setTimeout callback and no
\* requestAnimationFrame callback pending, the next request id; callbacks
\* counts the invocations of the frame callback, scanlines the runScanline
\* calls of the frame loop and caught those whose CPU quantum ended in the
\* catch clause
HostInit ==
    [timers |-> 0, rafs |-> {}, nextId |-> 1, callbacks |-> 0, scanlines |-> 0,
     caught |-> 0]

Machine == [mem |-> mem, ppu |-> ppu, apu |-> apu, input |-> input,
            log |-> <<>>, exc |-> FALSE]

Ctx == [cpu |-> cpu, m |-> Machine, snes |-> snes, host |-> host]

\* what the host observes of a call: its name, arguments, return value,
\* whether it threw, and the DMA transfers it started
Call(op, a, v, ret, c) ==
    [op |-> op, a |-> a, v |-> v, ret |-> ret, threw |-> c.m.exc, log |-> c.m.log]

\* the I/O port a bus address reaches, -1 for the WRAM banks
IoPort(address) ==
    IF Bank(address) \in {126, 127} THEN -1 ELSE Offset(address)

\* the host's record of the port protocols: the index last written to 0x2121
\* and the bytes written to 0x2122 since; the live controller masks at the
\* last write to 0x4016 and the bits each controller port returned since;
\* for the latest cpu.step() calls made in a row, the last first and two at
\* most, the CPU as it was before the call and the opcode the call fetched
ObsInit ==
    [cgIndex |-> -1, cgData |-> <<>>, latched |-> <<>>, bits |-> << <<>>, <<>> >>,
     steps |-> <<>>]

Observe(o, call) ==
    IF call.op = "write" /\ IoPort(call.a) = 8481
    THEN [o EXCEPT !.cgIndex = call.v, !.cgData = <<>>]
    ELSE IF call.op = "write" /\ IoPort(call.a) = 8482 /\ o.cgIndex # -1
    THEN [o EXCEPT !.cgData = Append(@, call.v)]
    ELSE IF call.op = "write" /\ IoPort(call.a) = 16406
    THEN [o EXCEPT !.latched = <<input.controller1State, input.controller2State>>,
                   !.bits = << <<>>, <<>> >>]
    ELSE IF call.op = "read" /\ IoPort(call.a) \in {16406, 16407} /\ o.latched # <<>>
    THEN [o EXCEPT !.bits[IoPort(call.a) - 16405] = Append(@, call.ret)]
    ELSE o

\* the record of the cpu.step() calls: any other call ends the row
ObserveStep(o, call) ==
    [o EXCEPT !.steps =
        IF call.op = "step"
        THEN <<[cpu |-> cpu, opcode |-> call.v]>> \o SubSeq(@, 1, IF @ = <<>> THEN 0 ELSE 1)
        ELSE <<>>]

Commit(c, call) ==
    /\ obs' = ObserveStep(Observe(obs, call), call)
    /\ cpu' = c.cpu
    /\ mem' = c.m.mem
    /\ ppu' = c.m.ppu
    /\ apu' = c.m.apu
    /\ input' = c.m.input
    /\ snes' = c.snes
    /\ host' = c.host
    /\ last' = call
    /\ calls' = calls + 1

CPU_CYCLES_PER_SCANLINE == 227

\* the loop state q after a cpu.step() that returned, leaving the context
\* n: `cyclesRun += cycles`.  Beside c and cyclesRun the loop state counts
\* the cpu.step() calls made (steps) and keeps the cycles the last of them
\* returned (last) and whether one of them returned no cycle (stalled).
returned(q, n) ==
    [c |-> n,
     cyclesRun |-> q.cyclesRun + (n.cpu.cycles - q.c.cpu.cycles),
     steps |-> q.steps + 1,
     last |-> n.cpu.cycles - q.c.cpu.cycles,
     stalled |-> q.stalled \/ n.cpu.cycles - q.c.cpu.cycles < 1]

\* quantumTurn without the try/catch: the exception leaves runScanline
quantumTurnNoCatch(q) ==
    IF q.cyclesRun >= CPU_CYCLES_PER_SCANLINE THEN q
    ELSE LET go(n) ==
                 IF n.m.exc
                 THEN [q EXCEPT !.c = n, !.cyclesRun = CPU_CYCLES_PER_SCANLINE,
                                !.steps = @ + 1]
                 ELSE returned(q, n)
         IN  Only({go(n) : n \in {step(q.c)}})

\* one turn of the while loop of runScanline on q = [c, cyclesRun, steps,
\* last, stalled]: nothing once cyclesRun has reached the quantum, else one
\* cpu.step(); a step that throws is caught and ends the quantum
quantumTurn(q) ==
    IF q.cyclesRun >= CPU_CYCLES_PER_SCANLINE THEN q
    ELSE LET go(n) ==
                 IF n.m.exc
                 THEN [q EXCEPT !.c = [n EXCEPT !.m.exc = FALSE],
                                !.cyclesRun = CPU_CYCLES_PER_SCANLINE,
                                !.steps = @ + 1]
                 ELSE returned(q, n)
         IN  Only({go(n) : n \in {step(q.c)}})

\* 2^k turns of the loop: the first half, then the second half on its result
RECURSIVE quantumTurns(_, _)
quantumTurns(q, k) ==
    IF q.cyclesRun >= CPU_CYCLES_PER_SCANLINE THEN q
    ELSE IF k = 0 THEN quantumTurn(q)
    ELSE Only({quantumTurns(half, k - 1) : half \in {quantumTurns(q, k - 1)}})

\* the while loop of runScanline: every step takes at least the cycle of its
\* opcode fetch, so the loop ends within 227 turns, and 2^8 turns run it to
\* its end
cpuQuantum(c) ==
    quantumTurns([c |-> c, cyclesRun |-> 0, steps |-> 0, last |-> 0,
                  stalled |-> FALSE], 8)

\* SNES.runScanline up to the end of its loop: the loop state left
scanlineQuantum(c) == cpuQuantum([c EXCEPT !.m.ppu = renderScanline(@)])

\* `this.masterClock += cyclesRun`
endScanline(q) == [q.c EXCEPT !.snes.masterClock = @ + q.cyclesRun]

\* SNES.runScanline
runScanline(c) == Only({endScanline(q) : q \in {scanlineQuantum(c)}})

SCANLINES_PER_FRAME == 262

\* one turn of the for loop of runFrame on f = [c, scanline]: nothing once
\* the loop variable has reached SCANLINES_PER_FRAME, else one runScanline.
\* A quantum that ended in the catch clause is credited the whole quantum
\* although the CPU fetched fewer cycles.
frameTurn(f) ==
    IF f.scanline >= SCANLINES_PER_FRAME THEN f
    ELSE LET count(n) ==
                 [c |-> [n EXCEPT
                           !.host.scanlines = @ + 1,
                           !.host.caught =
                               IF n.cpu.cycles - f.c.cpu.cycles
                                      < n.snes.masterClock - f.c.snes.masterClock
                               THEN @ + 1 ELSE @],
                  scanline |-> f.scanline + 1]
         IN  Only({count(n) : n \in {runScanline(f.c)}})

\* 2^k turns of the for loop
RECURSIVE frameTurns(_, _)
frameTurns(f, k) ==
    IF f.scanline >= SCANLINES_PER_FRAME THEN f
    ELSE IF k = 0 THEN frameTurn(f)
    ELSE Only({frameTurns(half, k - 1) : half \in {frameTurns(f, k - 1)}})

\* runFrame without its first line `if (!this.running) return`
runFrameAlways(c) ==
    LET after(f) ==
            [f.c EXCEPT !.snes.frameCount = @ + 1,
                        !.host.callbacks =
                            IF c.snes.hasFrameCallback THEN @ + 1 ELSE @,
                        !.host.timers = @ + 1]
    IN  after(frameTurns([c |-> c, scanline |-> 0], 9))

\* SNES.runFrame: nothing unless running; else the 262 scanlines (2^9 turns
\* run the loop to its end), frameCount++, the frame callback if one is
\* registered, and setTimeout for the next frame
runFrame(c) ==
    IF ~c.snes.running THEN c
    ELSE LET after(f) ==
                 [f.c EXCEPT !.snes.frameCount = @ + 1,
                             !.host.callbacks =
                                 IF c.snes.hasFrameCallback THEN @ + 1 ELSE @,
                             !.host.timers = @ + 1]
         IN  after(frameTurns([c |-> c, scanline |-> 0], 9))

\* SNES.start, up to its last statement: the context there, and whether that
\* statement, the call of runFrame, is reached
start(c) ==
    IF ~c.snes.running
    THEN [c |-> [c EXCEPT !.snes.running = TRUE], runFrame |-> TRUE]
    ELSE [c |-> c, runFrame |-> FALSE]

\* SNES.stop: cancelAnimationFrame of an id that has fired changes nothing
stop(c) ==
    [c EXCEPT !.snes.running = FALSE,
              !.host.rafs = @ \ {c.snes.animationFrameId},
              !.snes.animationFrameId = 0]

\* SNES.pause
pause(c) ==
    [c EXCEPT !.snes.running = FALSE,
              !.host.rafs = @ \ {c.snes.animationFrameId},
              !.snes.animationFrameId = 0,
              !.m.apu = suspend(@)]

\* SNES.resume, up to its last statement as for start
snesResume(c) ==
    IF ~c.snes.running
    THEN [c |-> [c EXCEPT !.snes.running = TRUE, !.m.apu = resume(@)],
          runFrame |-> TRUE]
    ELSE [c |-> c, runFrame |-> FALSE]

\* the callback given to setTimeout by runFrame
timerCallback(c) ==
    [c EXCEPT !.host.timers = @ - 1,
              !.snes.animationFrameId = c.host.nextId,
              !.host.rafs = @ \cup {c.host.nextId},
              !.host.nextId = @ + 1]

\* the callback given to requestAnimationFrame by the timer callback, up to
\* its only statement, the call of runFrame
animationFrameCallback(c, id) ==
    [c |-> [c EXCEPT !.host.rafs = @ \ {id}], runFrame |-> TRUE]

\* the state after `new SNES()`
Init ==
    /\ cpu = CpuInit
    /\ mem = MemInit
    /\ ppu = PpuInit
    /\ apu = ApuInit
    /\ input = InputInit
    /\ snes = SnesInit
    /\ host = HostInit
    /\ last = [op |-> "new", a |-> 0, v |-> 0, ret |-> 0, threw |-> FALSE, log |-> <<>>]
    /\ calls = 0
    /\ obs = ObsInit

\* SNES.reset
snesReset(c) ==
    LET others(r) == [r EXCEPT !.m.ppu = PpuReset(@), !.m.apu = ApuReset(@),
                               !.snes.masterClock = 0, !.snes.frameCount = 0]
    IN  others(reset(c))

\* SNES.loadROM(data)
LoadROM(data) ==
    /\ ~mem.hasRom
    /\ LET done(c) == Commit(c, Call("loadROM", data.len, 0, 0, c))
       IN  done(snesReset([Ctx EXCEPT !.m.mem = MemLoadROM(@, data)]))

\* SNES.reset()
Reset ==
    LET done(c) == Commit(c, Call("reset", 0, 0, 0, c))
    IN  done(snesReset(Ctx))

\* cpu.step(), once the system has been reset
Step ==
    /\ last.op # "new"
    /\ LET done(c) ==
               Commit(c, Call("step", cpu.registers.PC,
                              ReadVal(Machine, BitOr(cpu.registers.PB * 65536,
                                                     cpu.registers.PC)),
                              c.cpu.cycles - cpu.cycles, c))
       IN  done(step(Ctx))

\* every channel the value fires has a programmed size within the bound
DmaWithinBound(value) ==
    \A i \in 0..7 : Bit(value, i) => mem.dmaChannels[i].size \in 1..MaxDmaSize

\* memory.read(address)
BusRead(address) ==
    LET done(rd) == Commit(rd.c, Call("read", address, 0, rd.v, rd.c))
    IN  done(memRead(Ctx, address))

\* memory.write(address, value)
BusWrite(address, value) ==
    LET done(c) == Commit(c, Call("write", address, value, 0, c))
    IN  done(memWrite(Ctx, address, value))

-----------------------------------------------------------------------------
(* Spec: the CPU running programs.  loadROM is given a 32 KiB LoROM image  *)
(* whose reset vector (or, with vector 0, the 0x8000 fallback) points at   *)
(* its first byte, where a program of up to MaxProgLen instructions drawn  *)
(* from Instrs is stored; then the host steps or resets the CPU.           *)

Instrs ==
    { <<251>>,            \* XCE
      <<56>>,             \* SEC
      <<194, 48>>,        \* REP #$30
      <<226, 48>>,        \* SEP #$30
      <<169, 66>>,        \* LDA #$42
      <<162, 255>>,       \* LDX #$FF
      <<27>>,             \* TCS
      <<154>>,            \* TXS
      <<186>>,            \* TSX
      <<170>>,            \* TAX
      <<8>>,              \* PHP
      <<40>>,             \* PLP
      <<72>>,             \* PHA
      <<104>>,            \* PLA
      <<96>>,             \* RTS
      <<64>>,             \* RTI
      <<0>>,              \* BRK
      <<32, 0, 128>> }    \* JSR $8000

RECURSIVE Programs(_)
Programs(n) ==
    IF n = 0 THEN {<<>>}
    ELSE LET shorter == Programs(n - 1)
         IN  shorter \cup {p \o i : p \in shorter, i \in Instrs}

\* the image holding program p at ROM offset 0 and the reset vector `vector`
ProgramImage(p, vector) ==
    [len |-> 32768, base |-> 0, seed |-> 0,
     bytes |-> [a \in (0..(Len(p) - 1)) \cup {32764, 32765} |->
                  IF a = 32764 THEN vector % 256
                  ELSE IF a = 32765 THEN vector \div 256
                  ELSE p[a + 1]]]

ProgramImages ==
    {ProgramImage(p, 32768) : p \in Programs(MaxProgLen)}
    \cup {ProgramImage(p, 0) : p \in Programs(1)}

Next ==
    \/ calls < MaxCalls /\ \E data \in ProgramImages : LoadROM(data)
    \/ calls < MaxCalls /\ Reset
    \/ calls < MaxCalls /\ Step

Spec == Init /\ [][Next]_vars

\* C1: while the emulation flag E is set, the high byte of the stack pointer
\* is 0x01 after every instruction (pushes, pops, TCS and TXS included).
C1_StackPageOne ==
    (last.op = "step" /\ cpu.flags.E) => Hi8(cpu.registers.SP) = 1

\* C2: while the emulation flag E is set, the width flags M and X are both
\* set; PLP, RTI, REP and SEP executed in emulation mode cannot clear them.
C2_EmulationForcesWidths ==
    cpu.flags.E => (cpu.flags.M /\ cpu.flags.X)

\* C3: whenever the index-width flag X is set, the high bytes of the X and Y
\* registers are zero.
C3_NarrowIndexHighBytesZero ==
    cpu.flags.X => (cpu.registers.X < 256 /\ cpu.registers.Y < 256)

\* the little-endian word memory.read returns at 0x00FFFC/0x00FFFD
ResetVectorWord ==
    ReadVal(Machine, VECTOR_RESET) + 256 * ReadVal(Machine, VECTOR_RESET + 1)

\* C4: after reset(), PC is the little-endian word read at 0x00FFFC (0x8000
\* when that word is 0), PB = 0, E = M = X = I = 1, SP = 0x01FF and D = 0.
C4_ResetState ==
    last.op \in {"reset", "loadROM"} =>
        /\ cpu.registers.PC = (IF ResetVectorWord = 0 THEN 32768 ELSE ResetVectorWord)
        /\ cpu.registers.PB = 0
        /\ cpu.flags.E /\ cpu.flags.M /\ cpu.flags.X /\ cpu.flags.I
        /\ cpu.registers.SP = 511
        /\ cpu.registers.D = 0

\* a reset that falls back to 0x8000, taken after the program has loaded the
\* accumulator and left emulation mode's reset values behind
C4_ResetAfterRun ==
    /\ last.op = "reset"
    /\ mem.hasRom
    /\ ResetVectorWord = 0
    /\ cpu.registers.PC = 32768
    /\ cpu.registers.A = 66

-----------------------------------------------------------------------------
(* SpecBus: the host reads and writes the bus, with or without a ROM.      *)

\* Host calls (loadROM, read, write) explored per behaviour of SpecBus.
MaxBusCalls == 2

BusBanks == {0, 63, 64, 125, 126, 127, 128, 191, 192, 255}
BusOffsets == {0, 8191, 8512, 16406, 24576, 32767, 32768, 65532}
BusAddresses == {b * 65536 + o : b \in BusBanks, o \in BusOffsets}
BusValues == {85, 170}

\* a 64 KiB image whose only valid header is the HiROM one at 0xFFC0
HiRomImage ==
    [len |-> 65536, base |-> 0, seed |-> 7,
     bytes |-> [a \in 65516..65519 |-> IF a >= 65518 THEN 255 ELSE 0]]

BusImages ==
    { [len |-> 32768, base |-> 0, seed |-> 1, bytes |-> Empty],   \* LoROM, 32 KiB
      [len |-> 98304, base |-> 0, seed |-> 2, bytes |-> Empty],   \* LoROM, 96 KiB
      [len |-> 33280, base |-> 0, seed |-> 3, bytes |-> Empty],   \* with copier header
      HiRomImage }

NextBus ==
    \/ calls < MaxBusCalls /\ \E data \in BusImages : LoadROM(data)
    \/ calls < MaxBusCalls /\ \E a \in BusAddresses : BusRead(a)
    \/ calls < MaxBusCalls /\ \E a \in BusAddresses, v \in BusValues : BusWrite(a, v)

SpecBus == Init /\ [][NextBus]_vars

\* the bank classes of the routing table
SystemBank(bank) == bank \in (0..63) \cup (128..191)
RomOnlyBank(bank) == bank \in (64..125) \cup (192..255)

\* the addresses the routing table gives WRAM, and the WRAM byte of each
InWramView(a) ==
    Bank(a) \in {126, 127} \/ (SystemBank(Bank(a)) /\ Offset(a) < 8192)
WramCell(a) ==
    IF Bank(a) \in {126, 127} THEN (Bank(a) - 126) * 65536 + Offset(a) ELSE Offset(a)

\* the addresses the routing table gives ROM
RomRouted(a) ==
    RomOnlyBank(Bank(a)) \/ (SystemBank(Bank(a)) /\ Offset(a) >= 32768)

\* one call seen against C5
C5_Call ==
    /\ (last'.op = "write" /\ Bank(last'.a) \in {126, 127}) =>
          /\ \A i \in DOMAIN mem.wram \cup DOMAIN mem'.wram \cup {WramCell(last'.a)} :
                Get(mem'.wram, i) =
                    IF i = WramCell(last'.a) THEN last'.v ELSE Get(mem.wram, i)
          /\ \A b \in BusAddresses :
                (Bank(b) \in {126, 127} /\ b # last'.a) =>
                    ReadVal(Machine', b) = ReadVal(Machine, b)
    /\ (/\ last.op = "write" /\ last'.op = "read"
        /\ InWramView(last.a) /\ InWramView(last'.a)
        /\ WramCell(last.a) = WramCell(last'.a)) =>
          last'.ret = last.v

\* C5: in banks 0x7E/0x7F a write followed by a read of the same address
\* returns the value written, the write changes that one WRAM byte only,
\* distinct addresses are distinct bytes, and 0x7E:off with off < 0x2000 is
\* the cell bank:off of every bank in 0x00-0x3F and 0x80-0xBF: what is written
\* through one view is read back through the other.
C5_WramBijectiveAndMirrored == [][C5_Call]_vars

\* a byte written at 0x7E:1FFF or one of its mirrors, read back through the
\* mirror in bank 0x3F
C5_MirrorReadBack ==
    /\ last.op = "read"
    /\ last.a = 63 * 65536 + 8191
    /\ last.ret = 170
    /\ Get(mem.wram, 8191) = 170

\* one call seen against C6
C6_Call ==
    /\ (last'.op = "write" /\ RomOnlyBank(Bank(last'.a))) =>
          UNCHANGED <<mem, ppu, apu, input, snes>>
    /\ (last'.op = "read" /\ RomOnlyBank(Bank(last'.a))) =>
          /\ input' = input
          /\ last'.ret = readROM(mem, Bank(last'.a), Offset(last'.a))

\* C6: in banks 0x40-0x7D and 0xC0-0xFF every offset routes to ROM: a write
\* changes no WRAM, I/O shadow, PPU, APU, controller or DMA state, and a read
\* returns what ROM gives and does not move the controller shift index.
C6_RomOnlyBanksRouteToRom == [][C6_Call]_vars

\* C7: a read of an unmapped address returns 0xFF: every ROM-routed read
\* while no ROM is loaded, and with a LoROM image every read at offset
\* 0x6000-0x7FFF of banks 0x00-0x3F and 0x80-0xBF.
C7_UnmappedReadsReturnFF ==
    last.op = "read" =>
        /\ (~mem.hasRom /\ RomRouted(last.a)) => last.ret = 255
        /\ (/\ mem.hasRom /\ mem.romType = "LoROM"
            /\ SystemBank(Bank(last.a))
            /\ Offset(last.a) \in 24576..32767) => last.ret = 255

\* C8: with HiROM mapping every ROM-routed read, offsets >= 0x8000 of banks
\* 0x00-0x3F and 0x80-0xBF included, returns
\* rom[(((bank & 0x3F) << 16) | offset) mod romSize].
C8_HiRomReads ==
    (last.op = "read" /\ mem.hasRom /\ mem.romType = "HiROM" /\ RomRouted(last.a)) =>
        last.ret = RomAt(mem.rom, (BitAnd(Bank(last.a), 63) * 65536 + Offset(last.a))
                                  % mem.romSize)

\* C9: with LoROM mapping, for every bank but 0x7E/0x7F and every offset
\* >= 0x8000, read returns
\* rom[(((bank & 0x7F) << 15) | (offset & 0x7FFF)) mod romSize].
C9_LoRomReads ==
    (/\ last.op = "read" /\ mem.hasRom /\ mem.romType = "LoROM"
     /\ Bank(last.a) \notin {126, 127}
     /\ Offset(last.a) >= 32768) =>
        last.ret = RomAt(mem.rom, (BitAnd(Bank(last.a), 127) * 32768
                                   + BitAnd(Offset(last.a), 32767)) % mem.romSize)

\* the reset vector read through bank 0x40 of the 96 KiB LoROM image, where
\* the effective address is inside the second 32 KiB bank
C9_UpperBankRead ==
    /\ last.op = "read"
    /\ mem.hasRom /\ mem.romType = "LoROM" /\ mem.romSize = 98304
    /\ last.a = 64 * 65536 + 65532
    /\ last.ret = RomAt(mem.rom, 65532)

-----------------------------------------------------------------------------
(* SpecDma: the host programs DMA channels through 0x43x0-0x43xF and fires  *)
(* them through 0x420B.  A channel is fired only once its size register    *)
(* holds 1..MaxDmaSize bytes (size 0 would transfer 0x10000 bytes).        *)

\* Register writes explored per behaviour of SpecDma.
MaxDmaCalls == 4

DmaSample == {0, 1, 7}

\* <<register, value>>: direction bit of the parameters, B-bus address of
\* CGDATA, size low byte
DmaRegisterWrites ==
    {<<0, 128>>, <<1, 34>>} \cup {<<5, n>> : n \in 1..MaxDmaSize}

DmaTriggers == {1, 2, 3, 128, 130}

\* memory.write(0x4300 + 16 * channel + register, value)
SetDmaRegister(channel, w) == BusWrite(17152 + 16 * channel + w[1], w[2])

\* memory.write(0x420B, value)
TriggerDma(value) == DmaWithinBound(value) /\ BusWrite(16907, value)

\* memory.read(0x4305 + 16 * channel) and memory.read(0x4306 + 16 * channel)
ReadDmaSize(channel, high) == BusRead(17157 + 16 * channel + high)

NextDma ==
    \/ calls < MaxDmaCalls /\ \E ch \in DmaSample, w \in DmaRegisterWrites :
                                 SetDmaRegister(ch, w)
    \/ calls < MaxDmaCalls /\ \E v \in DmaTriggers : TriggerDma(v)
    \/ calls < MaxDmaCalls /\ \E ch \in DmaSample, high \in {0, 1} :
                                 ReadDmaSize(ch, high)

SpecDma == Init /\ [][NextDma]_vars

\* the channels a value written to 0x420B names
SetBits(value) == {i \in 0..7 : Bit(value, i)}

\* C10: a write of v to 0x420B has, when it returns, run one complete
\* transfer for exactly the channels whose bit is set in v, in ascending
\* channel order, and none for a channel whose bit is clear.
C10_TriggerRunsSelectedChannels ==
    (last.op = "write" /\ last.a = 16907) =>
        /\ ~last.threw
        /\ Len(last.log) = Cardinality(SetBits(last.v))
        /\ {last.log[i].channel : i \in 1..Len(last.log)} = SetBits(last.v)
        /\ \A i, j \in 1..Len(last.log) :
              i < j => last.log[i].channel < last.log[j].channel
        /\ \A ch \in SetBits(last.v) : mem.dmaChannels[ch].size = 0

-----------------------------------------------------------------------------
(* SpecDmaVram: the host loads a ROM and programs the DMA-to-VRAM scenario  *)
(* register by register, in order, each register with the scenario's value *)
(* or a variant of it, then fires channel 0.                                *)

\* the register writes of the scenario, in order, each with its variants
DmaVramScript ==
    << {<<8469, 0>>, <<8469, 128>>},        \* 0x2115 VMAIN
       {<<17152, 1>>, <<17152, 0>>,         \* 0x4300 parameters: mode 1, mode 0,
        <<17152, 8>>, <<17152, 16>>},       \*   fixed address, decrement
       {<<17153, 24>>, <<17153, 25>>},      \* 0x4301 B address: 0x18, 0x19
       {<<17155, 128>>, <<17155, 129>>},    \* 0x4303 A address high: 0x80, 0x81
       {<<17157, 32>>, <<17157, 4>>},       \* 0x4305 size low: 0x20, 0x04
       {<<16907, 1>>} >>                    \* 0x420B fire channel 0

DmaVramImages ==
    { [len |-> 32768, base |-> 0, seed |-> 17, bytes |-> Empty],
      [len |-> 98304, base |-> 0, seed |-> 5, bytes |-> Empty] }

NextDmaVram ==
    \/ calls = 0 /\ \E data \in DmaVramImages : LoadROM(data)
    \/ /\ calls \in 1..Len(DmaVramScript)
       /\ \E w \in DmaVramScript[calls] : BusWrite(w[1], w[2])

SpecDmaVram == Init /\ [][NextDmaVram]_vars

\* channel 0 as the scenario programs it
C11_Channel ==
    [params |-> 1, bAddress |-> 24, aAddress |-> 32768, aBank |-> 0, size |-> 32,
     hdmaBank |-> 0]

\* one call seen against C11
C11_Call ==
    (/\ last'.op = "write" /\ last'.a = 16907 /\ last'.v = 1
     /\ mem.hasRom
     /\ mem.dmaChannels[0] = C11_Channel
     /\ ppu.vramAddress = 0) =>
        \A k \in 0..15 :
            Get(ppu'.vram, k) = ReadVal(Machine, 32768 + 2 * k)
                                + 256 * ReadVal(Machine, 32768 + 2 * k + 1)

\* C11: with channel 0 programmed A-source 0x008000, B-dest 0x18, size 0x0020,
\* params 0x01 and VRAM address 0, writing 0x01 to 0x420B leaves VRAM words
\* 0..15 equal to ROM bytes 0x8000..0x801F packed little-endian.
C11_DmaToVramPacksWords == [][C11_Call]_vars

\* one read of a size register that directly follows a trigger
C12_Call ==
    \A x \in 0..7 :
        (/\ last.op = "write" /\ last.a = 16907 /\ ~last.threw
         /\ \E i \in 1..Len(last.log) : last.log[i].channel = x
         /\ last'.op = "read"
         /\ last'.a \in {17157 + 16 * x, 17158 + 16 * x}) =>
            last'.ret = 0

\* C12: after a DMA transfer on channel x completes, reading the channel's
\* size registers 0x43x5 and 0x43x6 through the bus returns 0.
C12_SizeRegistersReadZero == [][C12_Call]_vars

-----------------------------------------------------------------------------
(* SpecVram: the host writes the VRAM ports 0x2115..0x2119 through the bus. *)

MaxVramCalls == 4

VmainValues == {0, 1, 2, 3, 128, 129, 130, 131, 124}

\* <<port, value>>: VMADDL, VMADDH, VMDATAL, VMDATAH
VramPortWrites ==
    {<<8470, 255>>, <<8471, 255>>, <<8471, 127>>,
     <<8472, 52>>, <<8472, 86>>, <<8473, 18>>, <<8473, 120>>}

WriteVmain(value) == BusWrite(8469, value)

WriteVramPort(w) == BusWrite(w[1], w[2])

NextVram ==
    \/ calls < MaxVramCalls /\ \E v \in VmainValues : WriteVmain(v)
    \/ calls < MaxVramCalls /\ \E w \in VramPortWrites : WriteVramPort(w)

SpecVram == Init /\ [][NextVram]_vars

\* the step VMAIN bits 0-1 select
C13_Step == <<1, 32, 128, 128>>[(ppu.vmain % 4) + 1]

\* the address after a write to the data port that VMAIN bit 7 selects
\* (selector 0: 0x2118, 1: 0x2119)
C13_AddressAfter(selector) ==
    IF (ppu.vmain \div 128) % 2 = selector
    THEN (ppu.vramAddress + C13_Step) % 65536
    ELSE ppu.vramAddress

\* one call seen against C13
C13_Call ==
    /\ (last'.op = "write" /\ last'.a = 8472) =>
           ppu'.vramAddress = C13_AddressAfter(0)
    /\ (last'.op = "write" /\ last'.a = 8473) =>
           ppu'.vramAddress = C13_AddressAfter(1)
    /\ (/\ last.op = "write" /\ last.a = 8472
        /\ last'.op = "write" /\ last'.a = 8473
        /\ ppu.vmain = 128) =>
           Get(ppu'.vram, ppu.vramAddress % 32768) = last.v + 256 * last'.v

\* C13: for every VMAIN value, of a write to 0x2118 and a write to 0x2119
\* exactly one changes the VRAM word address (0x2119 when bit 7 is 1, 0x2118
\* when it is 0), and it adds the step bits 0-1 select from {1, 32, 128, 128}
\* once, in 16 bits; with VMAIN = 0x80, low to 0x2118 then high to 0x2119
\* stores low | (high << 8) in the VRAM word at the address held before the
\* two writes (VRAM has 0x8000 words).
C13_VramIncrementOnSelectedByte == [][C13_Call]_vars

\* a whole word written with VMAIN = 0x80 at address 0xFF00: stored in word
\* 0x7F00, the address stepped once
C13_WordWritten ==
    /\ last.op = "write" /\ last.a = 8473
    /\ ppu.vmain = 128
    /\ ppu.vramAddress = 65281
    /\ Get(ppu.vram, 32512) = 52 + 256 * 18

-----------------------------------------------------------------------------
(* SpecCgram: the host writes the CGRAM ports 0x2121 and 0x2122.           *)

MaxCgramCalls == 5

CgramIndexes == {0, 128, 255}

CgramBytes == {31, 124, 3}

WriteCgadd(value) == BusWrite(8481, value)

WriteCgdata(value) == BusWrite(8482, value)

NextCgram ==
    \/ calls < MaxCgramCalls /\ \E i \in CgramIndexes : WriteCgadd(i)
    \/ calls < MaxCgramCalls /\ \E v \in CgramBytes : WriteCgdata(v)

SpecCgram == Init /\ [][NextCgram]_vars

\* the 16-bit CGRAM word at an index
CgramWord(index) == Get(ppu.cgram, 2 * index) + 256 * Get(ppu.cgram, 2 * index + 1)

\* the number of complete (low, high) pairs written since the index was set
C14_Pairs == Len(obs.cgData) \div 2

\* C14: after a write to 0x2121 selecting index i, each following
\* (low, high) pair written to 0x2122 stores low | (high << 8) in the CGRAM
\* word at the current index, the index then advances by one modulo 256,
\* and the next write is again a low-byte write.
C14_CgramPairsStoreWords ==
    obs.cgIndex # -1 =>
        /\ \A j \in 1..C14_Pairs :
               C14_Pairs - j < 256 =>
                   CgramWord((obs.cgIndex + j - 1) % 256)
                       = obs.cgData[2 * j - 1] + 256 * obs.cgData[2 * j]
        /\ ppu.cgramAddress = (obs.cgIndex + C14_Pairs) % 256
        /\ Len(obs.cgData) % 2 = 0 => ppu.cgramFirstWrite

\* two pairs written from index 255: the index has wrapped to 1
C14_TwoPairsAcrossWrap ==
    /\ obs.cgIndex = 255
    /\ obs.cgData = <<31, 124, 3, 31>>
    /\ CgramWord(0) = 3 + 256 * 31

-----------------------------------------------------------------------------
(* SpecOam: the host writes the OAM ports 0x2102..0x2104.                   *)

MaxOamCalls == 4

\* <<port, value>>: OAMADDL, OAMADDH, OAMDATA
OamPortWrites ==
    {<<8450, 0>>, <<8450, 31>>, <<8450, 30>>, <<8450, 255>>,
     <<8451, 0>>, <<8451, 1>>,
     <<8452, 90>>, <<8452, 165>>}

WriteOamPort(w) == BusWrite(w[1], w[2])

NextOam == calls < MaxOamCalls /\ \E w \in OamPortWrites : WriteOamPort(w)

SpecOam == Init /\ [][NextOam]_vars

\* one call seen against C15
C15_Call ==
    (last'.op = "write" /\ last'.a = 8452 /\ ppu.oamAddress < 544) =>
        /\ Get(ppu'.oam, ppu.oamAddress) = last'.v
        /\ ppu'.oamAddress = (ppu.oamAddress + 1) % 544

\* C15: each write to 0x2104 stores its byte at the OAM byte address a held
\* before the write and then sets the address to (a + 1) mod 0x220, so that
\* 0x220 consecutive writes from address 0 fill all 544 bytes in order.
C15_OamAddressStepsMod544 == [][C15_Call]_vars

-----------------------------------------------------------------------------
(* SpecInput: the host presses and releases buttons, writes the latch port *)
(* 0x4016 and reads the controller ports 0x4016 and 0x4017.  The first     *)
(* MaxInputCalls calls are any of these; after them the host only goes on  *)
(* reading the ports, up to MaxPortReads reads since the latch.            *)

MaxInputCalls == 3

MaxPortReads == 17

\* <<controller, button>>: B, START, DOWN of controller 1, Y of controller 2
Presses == {<<1, 32768>>, <<1, 4096>>, <<1, 1024>>, <<2, 16384>>}

Releases == {<<1, 4096>>, <<2, 16384>>}

\* input.pressButton(controller, button)
Press(controller, button) ==
    LET done(c) == Commit(c, Call("pressButton", controller, button, 0, c))
    IN  done([Ctx EXCEPT !.m.input = pressButton(@, controller, button)])

\* input.releaseButton(controller, button)
Release(controller, button) ==
    LET done(c) == Commit(c, Call("releaseButton", controller, button, 0, c))
    IN  done([Ctx EXCEPT !.m.input = releaseButton(@, controller, button)])

\* memory.write(0x4016, 1)
Latch == BusWrite(16406, 1)

\* memory.read(0x4016) and memory.read(0x4017)
ReadPort(controller) ==
    /\ \/ calls < MaxInputCalls
       \/ /\ obs.latched # <<>>
          /\ Len(obs.bits[1]) + Len(obs.bits[2]) < MaxPortReads
    /\ BusRead(16405 + controller)

NextInput ==
    \/ calls < MaxInputCalls /\ \E p \in Presses : Press(p[1], p[2])
    \/ calls < MaxInputCalls /\ \E r \in Releases : Release(r[1], r[2])
    \/ calls < MaxInputCalls /\ Latch
    \/ \E controller \in {1, 2} : ReadPort(controller)

SpecInput == Init /\ [][NextInput]_vars

\* C16: for any interleaving of pressButton/releaseButton with port reads,
\* the k-th read (k = 1..16) of 0x4016 (controller 1) or 0x4017 (controller 2)
\* after a write to 0x4016 returns bit 16-k of that controller's mask as it
\* was at the latch write, whatever the buttons did since; the write resets
\* both shift indices to 0.
C16_ReadsShiftOutLatchedMask ==
    obs.latched # <<>> =>
        /\ \A c \in {1, 2} :
               \A k \in 1..Len(obs.bits[c]) :
                   k <= 16 => obs.bits[c][k] = (obs.latched[c] \div 2 ^ (16 - k)) % 2
        /\ input.controller1Index = Len(obs.bits[1]) % 16
        /\ input.controller2Index = Len(obs.bits[2]) % 16

\* START latched, DOWN pressed after the latch, sixteen bits read
C16_SixteenReadsAfterLaterPress ==
    /\ obs.latched # <<>>
    /\ obs.latched[1] = 61439
    /\ input.controller1State = 60415
    /\ obs.bits[1] = <<1, 1, 1, 0, 1, 1, 1, 1, 1, 1, 1, 1, 1, 1, 1, 1>>

\* C17: after a latch, the 17th and every later read of a controller port
\* returns 1 until the next write to 0x4016.
C17_ReadsPastSixteenReturnOne ==
    \A c \in {1, 2} :
        \A k \in 1..Len(obs.bits[c]) : k >= 17 => obs.bits[c][k] = 1

\* C18: with controller 1's live state 0xFFFF & ~0x1400 (Start and Down
\* held) at the write to 0x4016, sixteen reads of 0x4016 return
\* 1,1,1,0,1,0,1,1,1,1,1,1,0,0,0,0.
C18_StartDownSequence ==
    (/\ obs.latched # <<>>
     /\ obs.latched[1] = 60415
     /\ Len(obs.bits[1]) = 16) =>
        obs.bits[1] = <<1, 1, 1, 0, 1, 0, 1, 1, 1, 1, 1, 1, 0, 0, 0, 0>>

-----------------------------------------------------------------------------
(* SpecScan: the host calls ppu.renderScanline() and ppu.reset().          *)

MaxScanCalls == 264

\* ppu.renderScanline()
PpuRenderScanline ==
    LET done(c) == Commit(c, Call("renderScanline", ppu.scanline, 0, 0, c))
    IN  done([Ctx EXCEPT !.m.ppu = renderScanline(@)])

\* ppu.reset()
PpuResetCall ==
    LET done(c) == Commit(c, Call("ppu.reset", ppu.scanline, 0, 0, c))
    IN  done([Ctx EXCEPT !.m.ppu = PpuReset(@)])

NextScan ==
    \/ calls < MaxScanCalls /\ PpuRenderScanline
    \/ calls < MaxScanCalls /\ PpuResetCall

SpecScan == Init /\ [][NextScan]_vars

\* C19: after any sequence of PPU renderScanline() and reset() calls the
\* scanline counter is in 0..261 and the vblank flag is set exactly when the
\* counter is in 224..261.
C19_VblankIffScanlineInVblankRange ==
    /\ ppu.scanline \in 0..261
    /\ ppu.vblank <=> ppu.scanline \in 224..261

-----------------------------------------------------------------------------
(* SpecFrame: the scanlines of the frame loop.  The host loads a ROM whose *)
(* program loops at 0x8000 and whose NMI vector points at 0x9000 and may   *)
(* write NMITIMEN (0x4200) within the first MaxSetupCalls calls; then      *)
(* runScanline is run scanline after scanline, as runFrame does.           *)

MaxSetupCalls == 2

MaxFrameCalls == 227

\* JMP long and JMP $8000, each jumping to itself
LoopPrograms == { <<92, 0, 0, 0, 0, 128>>, <<76, 0, 128>> }

\* the image holding program p at ROM offset 0 (bus address 0x8000), the
\* reset vector 0x8000 and the NMI vector 0x9000
LoopImage(p) ==
    [len |-> 32768, base |-> 0, seed |-> 0,
     bytes |-> [a \in (0..(Len(p) - 1)) \cup {32746, 32747, 32764, 32765} |->
                  IF a \in {32746, 32764} THEN 0
                  ELSE IF a = 32747 THEN 144
                  ELSE IF a = 32765 THEN 128
                  ELSE p[a + 1]]]

\* memory.write(0x4200, value)
WriteNmitimen(value) == BusWrite(16896, value)

\* one pass of the scanline loop of runFrame; the call record holds the
\* address of the first opcode fetched after the scanline was rendered
RunScanline ==
    /\ mem.hasRom
    /\ LET done(c) ==
               Commit(c, Call("runScanline",
                              cpu.registers.PB * 65536 + cpu.registers.PC,
                              0, c.snes.masterClock - snes.masterClock, c))
       IN  done(runScanline(Ctx))

NextFrame ==
    \/ calls < MaxSetupCalls /\ \E p \in LoopPrograms : LoadROM(LoopImage(p))
    \/ calls < MaxSetupCalls /\ \E v \in {0, 1, 128, 129} : WriteNmitimen(v)
    \/ calls < MaxFrameCalls /\ RunScanline

SpecFrame == Init /\ [][NextFrame]_vars

\* the NMI-enable bit of the value last written to 0x4200
NmiEnabled == Bit(Get(mem.ioRegisters, 16896 - 8192), 7)

\* the bank-0 address stored in the NMI vector
NmiTarget == ReadVal(Machine, VECTOR_NMI) + 256 * ReadVal(Machine, VECTOR_NMI + 1)

\* one scanline seen against C20
C20_Call ==
    (/\ last'.op = "runScanline"
     /\ ppu.scanline = 223
     /\ ppu'.scanline = 224) =>
        IF NmiEnabled
        THEN last'.a = NmiTarget
        ELSE last'.a = cpu.registers.PB * 65536 + cpu.registers.PC

\* C20: when the PPU goes from scanline 223 to 224 while the NMI-enable bit
\* of 0x4200 is set, an NMI is raised and the CPU vectors through the NMI
\* vector (0xFFEA) before it executes its next instruction, so its next
\* opcode is fetched at the address the vector holds; with the bit clear no
\* NMI is taken and the next opcode is fetched at PB:PC.
C20_NmiAtVblank == [][C20_Call]_vars

-----------------------------------------------------------------------------
(* SpecSched: the frame scheduler.  The host loads a ROM, may register a   *)
(* frame callback and create the audio context, and calls start, stop,     *)
(* pause and resume; the browser runs the pending timer and                 *)
(* animation-frame callbacks in any order.  A frame runs to its end        *)
(* within the call or callback that took it, as JavaScript runs it.  Calls *)
(* and callbacks together are bounded by MaxSchedCalls and the frames run  *)
(* by MaxFrames.                                                            *)

MaxSchedCalls == 6

MaxFrames == 2

\* LDA #$80; STA $4300; LDA #$01; STA $4305; STA $420B; JMP $800A: a DMA
\* with the direction bit set, which throws, fired again on every scanline
ThrowingProgram ==
    <<169, 128, 141, 0, 67, 169, 1, 141, 5, 67, 141, 11, 66, 76, 10, 128>>

SchedPrograms == {ThrowingProgram}

\* a frame may still be run
FrameBudget == snes.frameCount < MaxFrames

\* snes.setFrameCallback(callback)
SetFrameCallback ==
    LET done(c) == Commit(c, Call("setFrameCallback", 0, 0, 0, c))
    IN  done([Ctx EXCEPT !.snes.hasFrameCallback = TRUE])

\* snes.init()
InitAudio ==
    LET done(c) == Commit(c, Call("init", 0, 0, 0, c))
    IN  done([Ctx EXCEPT !.m.apu = ApuInitAudio(@)])

\* snes.stop()
Stop == LET done(c) == Commit(c, Call("stop", 0, 0, 0, c)) IN done(stop(Ctx))

\* snes.pause()
Pause == LET done(c) == Commit(c, Call("pause", 0, 0, 0, c)) IN done(pause(Ctx))

\* the browser runs a pending timer callback
TimerFires ==
    /\ host.timers > 0
    /\ LET done(c) == Commit(c, Call("timer", 0, 0, 0, c)) IN done(timerCallback(Ctx))

\* the calls that end in runFrame: snes.start(), snes.resume(), and the
\* browser running the pending animation-frame callback id; the frame, when
\* one is taken, runs to its end inside the call
FrameCall(op, id) ==
    /\ op \in {"start", "resume"} =>
           id = 0 /\ mem.hasRom /\ (snes.running \/ FrameBudget)
    /\ op = "animationFrame" =>
           id \in host.rafs /\ (~snes.running \/ FrameBudget)
    /\ \E e \in {CASE op = "start" -> start(Ctx)
                   [] op = "resume" -> snesResume(Ctx)
                   [] OTHER -> animationFrameCallback(Ctx, id)} :
           \E c \in {IF e.runFrame THEN runFrame(e.c) ELSE e.c} :
               Commit(c, Call(op, id, 0, 0, c))

NextSched ==
    \/ calls < MaxSetupCalls /\ \E p \in SchedPrograms : LoadROM(LoopImage(p))
    \/ calls < MaxSetupCalls /\ SetFrameCallback
    \/ calls < MaxSetupCalls /\ InitAudio
    \/ calls < MaxSchedCalls /\ mem.hasRom /\ Stop
    \/ calls < MaxSchedCalls /\ mem.hasRom /\ Pause
    \/ calls < MaxSchedCalls /\ TimerFires
    \/ /\ calls < MaxSchedCalls
       /\ \E op \in {"start", "resume", "animationFrame"} :
              \E id \in host.rafs \cup {0} : FrameCall(op, id)

SpecSched == Init /\ [][NextSched]_vars

\* the step is a frame tick taken while running: runFrame called by start()
\* or resume() of a stopped system, or by the animation-frame callback of a
\* running one
C21_TickTaken ==
    \/ last'.op \in {"start", "resume"} /\ ~snes.running
    \/ last'.op = "animationFrame" /\ snes.running

\* one call seen against C21
C21_Call ==
    C21_TickTaken =>
        /\ host'.scanlines = host.scanlines + 262
        /\ ppu'.frameCounter = ppu.frameCounter + 1
        /\ ppu'.scanline = ppu.scanline
        /\ snes'.masterClock >= snes.masterClock + 262 * 227
        /\ snes'.frameCount = snes.frameCount + 1
        /\ snes.hasFrameCallback => host'.callbacks = host.callbacks + 1
        /\ ~last'.threw

\* C21: every frame tick taken while running renders exactly 262 scanlines,
\* each followed by its CPU quantum, then invokes the registered frame
\* callback exactly once and increments the frame count by one, also when
\* cpu.step() throws during a scanline: that scanline's quantum ends, the
\* next scanlines run, and no exception reaches the host.
C21_FrameTickIsWhole == [][C21_Call]_vars

\* a frame has run in which every scanline's quantum ended in the catch
\* clause, and the callback was invoked
C21_FrameWithCaughtExceptions ==
    /\ last.op = "start"
    /\ snes.frameCount = 1
    /\ host.scanlines = 262
    /\ host.caught = 262
    /\ host.callbacks = 1

\* one call seen against C22: while not running, a timer or animation-frame
\* callback, like pause() itself, leaves the CPU, the PPU, the memory and
\* the counters as they are, renders nothing and invokes no frame callback
C22_Call ==
    (~snes'.running /\ last'.op \in {"pause", "timer", "animationFrame"}) =>
        /\ UNCHANGED <<cpu, mem, ppu, input>>
        /\ snes'.masterClock = snes.masterClock
        /\ snes'.frameCount = snes.frameCount
        /\ host'.scanlines = host.scanlines
        /\ host'.callbacks = host.callbacks

\* C22: after pause() returns, whatever the order in which the pending timer
\* and animation-frame callbacks run, no scanline is rendered, no CPU
\* instruction executes and the frame callback is not invoked until
\* resume(); the state resume() continues from is the state at pause().
C22_PausedRunsNothing == [][C22_Call]_vars

\* paused after a frame, the timer and then the animation-frame callback
\* have both run
C22_CallbacksRanWhilePaused ==
    /\ last.op = "animationFrame"
    /\ ~snes.running
    /\ snes.frameCount = 1
    /\ host.timers = 0
    /\ host.rafs = {}

-----------------------------------------------------------------------------
(* SpecCpu: the CPU running instruction sequences.  loadROM is given a     *)
(* 32 KiB LoROM image with one of CpuPrograms at its first byte (bus       *)
(* address 0x8000, where the reset vector points), RTL at 0x8010, RTI at   *)
(* 0x9000 and the IRQ/BRK vector 0x9000; then the host steps the CPU.      *)

\* Host calls (loadROM, cpu.step) explored per behaviour of SpecCpu.
MaxCpuCalls == 12

CpuImage(p) ==
    [len |-> 32768, base |-> 0, seed |-> 0,
     bytes |-> [a \in (0..(Len(p) - 1)) \cup {16, 4096, 32750, 32751, 32764, 32765} |->
                  IF a < Len(p) THEN p[a + 1]
                  ELSE IF a = 16 THEN 107
                  ELSE IF a = 4096 THEN 64
                  ELSE IF a = 32751 THEN 144
                  ELSE IF a = 32765 THEN 128
                  ELSE 0]]

\* CLC; XCE: to native mode
ToNative == <<24, 251>>

\* XCE twice from reset; SEC; XCE; XCE; XCE from native mode with 16-bit
\* registers and SP = 0x1FFF; XCE that stays in native mode
XcePrograms ==
    { <<251, 251>>,
      <<56, 251, 251>>,
      ToNative \o <<194, 48, 169, 255, 31, 27, 251>>,
      ToNative \o <<24, 251>> }

\* status values and masks of the REP/SEP programs
StatusValues == {0, 52, 195, 255}
StatusMasks == {0, 1, 48, 195, 255}

\* in emulation and in native mode: LDA #p; PHA; PLP; REP #mask; SEP #mask
RepSepPrograms ==
    {mode \o <<169, p, 72, 40, 194, mask, 226, mask>> :
        mode \in {<<>>, ToNative}, p \in StatusValues, mask \in StatusMasks}

\* direct-page values and stack pointers of the PHD/PLD programs
PushValues == {255, 4660, 65535}
StackPointers == {1, 256, 257, 511, 8191}

\* to native mode; REP #$30; LDA #v; TCD; LDA #sp; TCS; then PHD; PLD, either
\* at once or after SEC; XCE has gone back to emulation mode
PhdPldPrograms ==
    {ToNative \o <<194, 48, 169, v % 256, v \div 256, 91,
                   169, sp % 256, sp \div 256, 27>> \o mode \o <<11, 43>> :
        v \in PushValues, sp \in StackPointers, mode \in {<<>>, <<56, 251>>}}

\* JSL $008010 in emulation and in native mode
JslPrograms == {mode \o <<34, 16, 128, 0>> : mode \in {<<>>, ToNative}}

\* BRK in emulation mode; in native mode after SED
BrkPrograms == {<<0>>, ToNative \o <<248, 0>>}

\* BPL, BMI, BVC, BVS, BCC, BCS, BNE, BEQ and BRA
ShortBranches == {16, 48, 80, 112, 144, 176, 208, 240, 128}

\* a short branch with displacement +5, -2 or -128, with N, V, Z and C clear
\* or set by SEP #$C3; BRL +5 and BRL -16; BRA -16 stored at 0x0000 by
\* LDA #$80; STA $00; LDA #$F0; STA $01 and reached by JMP $0000
BranchPrograms ==
    {flags \o <<op, d>> :
        flags \in {<<>>, <<226, 195>>}, op \in ShortBranches, d \in {5, 254, 128}}
    \cup {<<130, 5, 0>>, <<130, 240, 255>>,
          <<169, 128, 133, 0, 169, 240, 133, 1, 76, 0, 0>>}

\* LDA #a with the accumulator 8 bits wide (from reset) or 16 bits wide
\* (to native mode; REP #$20), then CLC or SEC
LoadA ==
    {<<169, a>> \o carry : a \in {1, 127, 128, 255}, carry \in {<<24>>, <<56>>}}
    \cup {ToNative \o <<194, 32, 169, a % 256, a \div 256>> \o carry :
             a \in {255, 256, 32767, 32768, 65535}, carry \in {<<24>>, <<56>>}}

\* the immediate operand b in the width of the accumulator of program p
ImmediateFor(p, b) == IF Len(p) = 3 THEN <<b % 256>> ELSE <<b % 256, b \div 256>>

\* ... ADC #b
AdcPrograms ==
    {p \o <<105>> \o ImmediateFor(p, b) : p \in LoadA, b \in {1, 127, 32767, 65535}}

\* INC A, ASL A, LSR A, ROL A, ROR A
AccumulatorOps == {26, 10, 74, 42, 106}

AccumulatorPrograms == {p \o <<op>> : p \in LoadA, op \in AccumulatorOps}

\* opcodes whose case reads the operand and does nothing else, or is empty
\* (WAI, STP, NOP), and the opcodes of the default case
Unimplemented ==
    Fetch1 \cup Fetch2 \cup Fetch3 \cup {73, 137, 201, 233, 192, 224}
        \cup {203, 219, 234} \cup DefaultCase

\* one of them followed by NOPs, with 8-bit registers (from reset) or 16-bit
\* registers (to native mode; REP #$30)
UnimplementedPrograms ==
    {mode \o <<opcode, 234, 234, 234>> :
         mode \in {<<>>, ToNative \o <<194, 48>>}, opcode \in Unimplemented}

\* LDA #v; PHA; PHA; RTS or RTL: the return word is v * 257
ReturnPrograms ==
    {<<169, v, 72, 72, opcode>> : v \in {128, 255}, opcode \in {96, 107}}

CpuPrograms ==
    XcePrograms \cup RepSepPrograms \cup PhdPldPrograms \cup JslPrograms
        \cup BrkPrograms \cup BranchPrograms \cup AdcPrograms
        \cup AccumulatorPrograms \cup UnimplementedPrograms
        \cup ReturnPrograms

NextCpu ==
    \/ calls < MaxCpuCalls /\ \E p \in CpuPrograms : LoadROM(CpuImage(p))
    \/ calls < MaxCpuCalls /\ mem.hasRom /\ Step

SpecCpu == Init /\ [][NextCpu]_vars

\* the last call was a cpu.step() that fetched `opcode` and did not throw
Stepped(opcode) == last.op = "step" /\ last.v = opcode /\ ~last.threw

\* the last two calls were cpu.step() calls that fetched `first`, then `second`
SteppedBoth(first, second) ==
    Stepped(second) /\ Len(obs.steps) = 2 /\ obs.steps[2].opcode = first

\* C23: XCE exchanges C and E: the new C is the old E and the new E the old
\* C; whenever the new E is 1 then M = X = 1 and the high byte of SP is 0x01;
\* from emulation with C = 0 one XCE gives C = 1, E = 0 with M and X as they
\* were, and a second XCE gives E = 1 with M = X = 1 and SP high byte 0x01.
C23_XceExchangesCarryAndEmulation ==
    /\ Stepped(251) =>
          /\ cpu.flags.C = obs.steps[1].cpu.flags.E
          /\ cpu.flags.E = obs.steps[1].cpu.flags.C
          /\ cpu.flags.E =>
                cpu.flags.M /\ cpu.flags.X /\ Hi8(cpu.registers.SP) = 1
          /\ (obs.steps[1].cpu.flags.E /\ ~obs.steps[1].cpu.flags.C) =>
                /\ cpu.flags.C /\ ~cpu.flags.E
                /\ cpu.flags.M = obs.steps[1].cpu.flags.M
                /\ cpu.flags.X = obs.steps[1].cpu.flags.X
    /\ (/\ SteppedBoth(251, 251)
        /\ obs.steps[2].cpu.flags.E /\ ~obs.steps[2].cpu.flags.C) =>
          /\ cpu.flags.E /\ cpu.flags.M /\ cpu.flags.X
          /\ Hi8(cpu.registers.SP) = 1

\* XCE has taken the CPU from native mode with 16-bit registers and
\* SP = 0x1FFF to emulation mode
C23_EntersEmulationFromWideNative ==
    /\ Stepped(251)
    /\ cpu.flags.E
    /\ ~obs.steps[1].cpu.flags.M /\ ~obs.steps[1].cpu.flags.X
    /\ obs.steps[1].cpu.registers.SP = 8191
    /\ cpu.registers.SP = 511

\* REP #mask directly followed by SEP #mask with the same mask
RepThenSep ==
    /\ SteppedBoth(194, 226)
    /\ last.a = (obs.steps[2].cpu.registers.PC + 2) % 65536
    /\ ReadVal(Machine, obs.steps[2].cpu.registers.PB * 65536 + last.a - 1)
           = ReadVal(Machine, obs.steps[2].cpu.registers.PB * 65536 + last.a + 1)

\* the operand of the SEP of RepThenSep
RepSepMask ==
    ReadVal(Machine, obs.steps[2].cpu.registers.PB * 65536 + last.a + 1)

\* C24 as claimed: for every P and every 8-bit mask, REP #mask followed by
\* SEP #mask leaves P (N, V, M, X, D, I, Z, C) equal to its value before the
\* REP, with E unchanged.
C24_RepSepRestoresP ==
    RepThenSep =>
        /\ getStatusRegister(cpu.flags) = getStatusRegister(obs.steps[2].cpu.flags)
        /\ cpu.flags.E = obs.steps[2].cpu.flags.E

\* C24 as amended: for every P and every 8-bit mask, REP #mask followed by
\* SEP #mask leaves every bit of P named by the mask set and every other bit
\* of P as it was before the REP (P | mask), with E unchanged.
C24_RepSepSetsMaskBits ==
    RepThenSep =>
        /\ getStatusRegister(cpu.flags)
               = BitOr(getStatusRegister(obs.steps[2].cpu.flags), RepSepMask)
        /\ cpu.flags.E = obs.steps[2].cpu.flags.E

\* REP #$30; SEP #$30 has run in native mode on P = 0xC3, whose bits 4 and
\* 5 were clear
C24_MaskBitsWereClear ==
    /\ RepThenSep
    /\ RepSepMask = 48
    /\ ~cpu.flags.E
    /\ getStatusRegister(obs.steps[2].cpu.flags) = 195
    /\ getStatusRegister(cpu.flags) = 243

\* C25: for every 16-bit value v and every stack pointer lying in WRAM, in
\* native mode and in emulation mode (also when the pointer wraps inside
\* page 1, as with SP = 0x0100 before the push), a 16-bit push of v directly
\* followed by a 16-bit pop (PHD then PLD) returns v and restores SP to its
\* value before the push.
C25_Push16Pop16RoundTrip ==
    (SteppedBoth(11, 43) /\ obs.steps[2].cpu.registers.SP \in 1..8191) =>
        /\ cpu.registers.D = obs.steps[2].cpu.registers.D
        /\ cpu.registers.SP = obs.steps[2].cpu.registers.SP

\* the byte at offset i after the opcode of the last step
Operand(i) ==
    ReadVal(Machine, obs.steps[1].cpu.registers.PB * 65536
                     + ((obs.steps[1].cpu.registers.PC + i) % 65536))

\* the byte at SP + i
Stacked(i) == ReadVal(Machine, (cpu.registers.SP + i) % 65536)

\* C28: JSL pushes PB and then PC - 1 (three bytes) and transfers control to
\* the target bank and address; a following RTL pops PC then PB and adds 1
\* to PC, so that JSL followed by RTL resumes at the instruction after the
\* JSL with PB and SP equal to their values before the JSL.
C28_JslRtlRoundTrip ==
    /\ Stepped(34) =>
          /\ cpu.registers.PC = Operand(1) + 256 * Operand(2)
          /\ cpu.registers.PB = Operand(3)
          /\ Stacked(3) = obs.steps[1].cpu.registers.PB
          /\ Stacked(2) * 256 + Stacked(1)
                 = (obs.steps[1].cpu.registers.PC + 3) % 65536
    /\ SteppedBoth(34, 107) =>
          /\ cpu.registers.PC = (obs.steps[2].cpu.registers.PC + 4) % 65536
          /\ cpu.registers.PB = obs.steps[2].cpu.registers.PB
          /\ cpu.registers.SP = obs.steps[2].cpu.registers.SP

\* C29: BRK pushes PC + 1 and P, sets I, clears D when in native mode, and
\* loads PC from the IRQ/BRK vector; a following RTI pops P then PC (and PB
\* in native mode), so BRK followed by RTI restores P and, in native mode,
\* PB, and leaves SP at its value before the BRK.
C29_BrkRtiRoundTrip ==
    /\ Stepped(0) =>
          /\ Stacked(1) = getStatusRegister(obs.steps[1].cpu.flags)
          /\ Stacked(3) * 256 + Stacked(2)
                 = (obs.steps[1].cpu.registers.PC + 2) % 65536
          /\ cpu.flags.I
          /\ ~cpu.flags.E => ~cpu.flags.D
          /\ cpu.registers.PC
                 = ReadVal(Machine, VECTOR_IRQ_BRK)
                   + 256 * ReadVal(Machine, VECTOR_IRQ_BRK + 1)
    /\ SteppedBoth(0, 64) =>
          /\ getStatusRegister(cpu.flags) = getStatusRegister(obs.steps[2].cpu.flags)
          /\ cpu.registers.PC = (obs.steps[2].cpu.registers.PC + 2) % 65536
          /\ ~cpu.flags.E => cpu.registers.PB = obs.steps[2].cpu.registers.PB
          /\ cpu.registers.SP = obs.steps[2].cpu.registers.SP

\* whether the branch `opcode` is taken under the flags fl
BranchTaken(opcode, fl) ==
    CASE opcode = 16 -> ~fl.N [] opcode = 48 -> fl.N
      [] opcode = 80 -> ~fl.V [] opcode = 112 -> fl.V
      [] opcode = 144 -> ~fl.C [] opcode = 176 -> fl.C
      [] opcode = 208 -> ~fl.Z [] opcode = 240 -> fl.Z
      [] OTHER -> TRUE

\* a displacement of `bits` bits, sign-extended
SignExtended(d, bits) == IF d >= 2 ^ (bits - 1) THEN d - 2 ^ bits ELSE d

\* C30: for BPL, BMI, BVC, BVS, BCC, BCS, BNE, BEQ, BRA and BRL: when the
\* branch is taken, PC after the instruction is (address following the
\* operand + sign-extended displacement) mod 0x10000, the displacement being
\* 8 bits wide for the short branches and 16 bits wide for BRL; when a
\* conditional branch is not taken, PC is the address following the operand;
\* BRA and BRL are always taken.
C30_BranchTargets ==
    /\ \A opcode \in ShortBranches :
          Stepped(opcode) =>
              cpu.registers.PC =
                  IF BranchTaken(opcode, obs.steps[1].cpu.flags)
                  THEN (obs.steps[1].cpu.registers.PC + 2
                        + SignExtended(Operand(1), 8)) % 65536
                  ELSE (obs.steps[1].cpu.registers.PC + 2) % 65536
    /\ Stepped(130) =>
          cpu.registers.PC =
              (obs.steps[1].cpu.registers.PC + 3
               + SignExtended(Operand(1) + 256 * Operand(2), 16)) % 65536

\* the byte of a VRAM word the data port 0x2118 (low) or 0x2119 (high) writes
C26_Byte(w, port) == IF port = 8472 THEN w % 256 ELSE w \div 256

\* one call seen against C26
C26_Call ==
    /\ (last'.op = "write" /\ last'.a \in {8472, 8473}) =>
          /\ DOMAIN ppu'.vram \subseteq 0..32767
          /\ \A i \in DOMAIN ppu.vram \cup DOMAIN ppu'.vram :
                i # ppu.vramAddress % 32768 => Get(ppu'.vram, i) = Get(ppu.vram, i)
          /\ C26_Byte(Get(ppu'.vram, ppu.vramAddress % 32768), last'.a) = last'.v
          /\ C26_Byte(Get(ppu'.vram, ppu.vramAddress % 32768), 16945 - last'.a)
                 = C26_Byte(Get(ppu.vram, ppu.vramAddress % 32768), 16945 - last'.a)
    /\ (/\ last.op = "write" /\ last.a = 8472
        /\ last'.op = "write" /\ last'.a = 8472
        /\ ppu.vmain = 0
        /\ (ppu.vramAddress + 65535) % 32768 = 32767) =>
          /\ Get(ppu'.vram, 32767) % 256 = last.v
          /\ Get(ppu'.vram, 0) % 256 = last'.v

\* C26: VRAM word addressing wraps at 0x8000 words: for any value of the
\* 16-bit address register, a write to a data port modifies only the word
\* (address mod 0x8000); auto-incremented writes that pass word 0x7FFF
\* continue at word 0; no port write touches storage outside the 0x8000
\* words.
C26_VramWrapsAt32KiW == [][C26_Call]_vars

\* with VMAIN = 0, two low bytes written from address 0x7FFF: the second
\* went to word 0 and the address is 0x8001
C26_WritesPassedLastWord ==
    /\ last.op = "write" /\ last.a = 8472
    /\ ppu.vmain = 0
    /\ ppu.vramAddress = 32769
    /\ Get(ppu.vram, 32767) # 0
    /\ Get(ppu.vram, 0) = last.v

-----------------------------------------------------------------------------
(* SpecBoot: loadROM of an image holding LDA #$42; STA $2100; BRA $-, then *)
(* the scanlines of the first frame.                                       *)

\* Host calls explored per behaviour of SpecBoot: loadROM and the 262
\* scanlines of one frame.
MaxBootCalls == 263

BootProgram == <<169, 66, 141, 0, 33, 128, 254>>

\* the 32 KiB LoROM image with the reset vector bytes low, high at
\* 0xFFFC/0xFFFD (file offsets 0x7FFC/0x7FFD) and BootProgram at each of the
\* file offsets `at`
BootImage(low, high, at) ==
    [len |-> 32768, base |-> 0, seed |-> 0,
     bytes |-> [a \in UNION {o..(o + Len(BootProgram) - 1) : o \in at}
                         \cup {32764, 32765} |->
                  IF a = 32764 THEN low
                  ELSE IF a = 32765 THEN high
                  ELSE BootProgram[((a % 128) + 1)]]]

\* vector bytes 0x80, 0x00 with the program at file offsets 0 and 0x80 (bus
\* addresses 0x8000 and 0x8080); vector bytes 0x00, 0x80 with the program
\* at file offset 0
BootImages == {BootImage(128, 0, {0, 128}), BootImage(0, 128, {0})}

NextBoot ==
    \/ calls < MaxBootCalls /\ \E data \in BootImages : LoadROM(data)
    \/ calls < MaxBootCalls /\ RunScanline

SpecBoot == Init /\ [][NextBoot]_vars

\* loadROM, then the SCANLINES_PER_FRAME scanlines of one frame
C27_OneFrameRun == last.op = "runScanline" /\ calls = 1 + SCANLINES_PER_FRAME

\* C27 as claimed: with a LoROM image whose reset vector bytes at
\* 0xFFFC/0xFFFD are 0x80, 0x00 (PC = 0x0080, bank 0) and which contains
\* LDA #$42; STA $2100; BRA $- at that entry point, after loadROM/reset and
\* one full frame (262 scanlines) the PPU brightness register equals 0x02.
C27_BrightnessAfterOneFrame ==
    (C27_OneFrameRun /\ ResetVectorWord = 128) => ppu.brightness = 2

\* C27 as amended: with a LoROM image whose reset vector bytes at
\* 0xFFFC/0xFFFD are 0x00, 0x80 (PC = 0x8000, bank 0) and which contains
\* LDA #$42; STA $2100; BRA $- at that entry point, after loadROM/reset and
\* one full frame (262 scanlines) the PPU brightness register equals 0x02.
C27_BrightnessAfterOneFrameFrom8000 ==
    (C27_OneFrameRun /\ ResetVectorWord = 32768) => ppu.brightness = 2

\* the frame has run from 0x8000 and the CPU is in the BRA loop
C27_FrameRunFrom8000 ==
    /\ C27_OneFrameRun
    /\ ResetVectorWord = 32768
    /\ cpu.registers.A = 66
    /\ cpu.registers.PC = 32773
    /\ ppu.brightness = 2

\* a XOR b
C31_Xor(a, b) == BitOr(a, b) - BitAnd(a, b)

\* the ADC of the last step: width of the accumulator, operand, unsigned sum
C31_Width == IF obs.steps[1].cpu.flags.M THEN 256 ELSE 65536
C31_Operand ==
    IF obs.steps[1].cpu.flags.M THEN Operand(1) ELSE Operand(1) + 256 * Operand(2)
C31_Sum ==
    obs.steps[1].cpu.registers.A + C31_Operand
        + (IF obs.steps[1].cpu.flags.C THEN 1 ELSE 0)

\* C31: after ADC immediate in 8-bit (M = 1, A <= 0xFF) or 16-bit (M = 0)
\* mode, for all operands and carry-in: A is the sum truncated to the width,
\* C is 1 exactly when the unsigned sum exceeds the width's maximum, and V is
\* 1 exactly when (op1 ^ result) & (op2 ^ result) & sign is non-zero for the
\* width's sign bit.
C31_AdcSumCarryOverflow ==
    (Stepped(105) /\ obs.steps[1].cpu.registers.A < C31_Width) =>
        /\ cpu.registers.A = C31_Sum % C31_Width
        /\ cpu.flags.C = (C31_Sum >= C31_Width)
        /\ cpu.flags.V =
               (BitAnd(BitAnd(C31_Xor(obs.steps[1].cpu.registers.A, cpu.registers.A),
                              C31_Xor(C31_Operand, cpu.registers.A)),
                       C31_Width \div 2) # 0)

\* the accumulator operation of the last step: width in bits, the
\* accumulator in that width before the step, carry-in, result and carry-out
C32_Bits == IF obs.steps[1].cpu.flags.M THEN 8 ELSE 16
C32_Before == obs.steps[1].cpu.registers.A % (2 ^ C32_Bits)
C32_CarryIn == IF obs.steps[1].cpu.flags.C THEN 1 ELSE 0
C32_Result ==
    CASE last.v = 26 -> (C32_Before + 1) % (2 ^ C32_Bits)
      [] last.v = 10 -> (C32_Before * 2) % (2 ^ C32_Bits)
      [] last.v = 74 -> C32_Before \div 2
      [] last.v = 42 -> (C32_Before * 2 + C32_CarryIn) % (2 ^ C32_Bits)
      [] OTHER -> C32_Before \div 2 + C32_CarryIn * 2 ^ (C32_Bits - 1)
C32_CarryOut ==
    IF last.v \in {10, 42} THEN Bit(C32_Before, C32_Bits - 1) ELSE Bit(C32_Before, 0)

\* C32: the accumulator operations follow the M flag: with M = 0, INC A and
\* ASL/LSR/ROL/ROR A operate on all 16 bits of A, take N from bit 15 and Z
\* from the 16-bit result, and the shifts take C from the bit shifted out of
\* the 16-bit value; with M = 1 they operate on the low 8 bits with N from
\* bit 7.
C32_AccumulatorOpsFollowM ==
    \A opcode \in AccumulatorOps :
        Stepped(opcode) =>
            /\ cpu.registers.A % (2 ^ C32_Bits) = C32_Result
            /\ ~obs.steps[1].cpu.flags.M => cpu.registers.A = C32_Result
            /\ cpu.flags.N = Bit(C32_Result, C32_Bits - 1)
            /\ cpu.flags.Z = (C32_Result = 0)
            /\ opcode # 26 => cpu.flags.C = C32_CarryOut

\* the number of operand bytes of a 65816 instruction, by its addressing
\* mode; an immediate operand is as wide as the register it is for
C33_OperandLength(opcode, fl) ==
    LET lo == opcode % 16
        hi == opcode \div 16
    IN  CASE opcode \in {34, 92} -> 3                         \* JSL, JML long
          [] opcode \in {98, 130, 68, 84, 244} -> 2           \* PER, BRL, MVP, MVN, PEA
          [] opcode \in {64, 96} -> 0                         \* RTI, RTS
          [] opcode = 32 -> 2                                 \* JSR abs
          [] opcode \in {162, 160, 192, 224} -> IF fl.X THEN 1 ELSE 2
          [] lo = 9 /\ hi % 2 = 0 -> IF fl.M THEN 1 ELSE 2
          [] lo \in {8, 10, 11} -> 0
          [] lo \in {9, 12, 13, 14} -> 2
          [] lo = 15 -> 3
          [] OTHER -> 1

\* C33: for every opcode 0x00..0xFF whose semantics are not implemented (the
\* stubbed cases and the opcodes of the default case), step() advances PC by
\* exactly 1 plus that opcode's 65816 operand length (the immediate length
\* by the current M/X flags) and leaves every other register, every flag and
\* all memory unchanged.
C33_UnimplementedOnlyAdvancesPC ==
    [][(last'.op = "step" /\ last'.v \in Unimplemented) =>
           /\ cpu'.registers =
                  [cpu.registers EXCEPT
                       !.PC = (@ + 1 + C33_OperandLength(last'.v, cpu.flags)) % 65536]
           /\ cpu'.flags = cpu.flags
           /\ UNCHANGED <<mem, ppu, apu, input>>]_vars

\* the A-bus step the parameter bits 3-4 select: fixed, decrement, increment
C34_Step(params) ==
    IF Bit(params, 3) THEN 0 ELSE IF Bit(params, 4) THEN -1 ELSE 1

\* C34: during a DMA transfer the A-bus address of the i-th byte is
\* start + i * step, with the step selected by parameter bits 3-4 as +1, -1
\* or 0 (fixed): with the fixed setting every byte is read from the same
\* A-bus address, with decrement the addresses descend.  Seen on a transfer
\* to 0x2118 with VMAIN = 0 from VRAM address 0, which leaves the i-th byte
\* in the low byte of VRAM word i.
C34_DmaABusStep ==
    [][(/\ last'.op = "write" /\ last'.a = 16907 /\ last'.v = 1
        /\ mem.hasRom /\ ppu.vmain = 0 /\ ppu.vramAddress = 0
        /\ mem.dmaChannels[0].bAddress = 24
        /\ mem.dmaChannels[0].size > 0) =>
           \A i \in 0 .. mem.dmaChannels[0].size - 1 :
               Get(ppu'.vram, i) % 256 =
                   ReadVal(Machine,
                           mem.dmaChannels[0].aBank * 65536
                               + mem.dmaChannels[0].aAddress
                               + i * C34_Step(mem.dmaChannels[0].params))]_vars

\* C40: after any sequence of writes to 0x2102, 0x2103 and 0x2104 with
\* arbitrary values the OAM byte address is in 0..0x21F, so every 0x2104
\* write stores its byte inside the 544-byte OAM and none is dropped.
C40_OamAddressInsideOam ==
    /\ [](ppu.oamAddress \in 0 .. OamSize - 1)
    /\ [][(last'.op = "write" /\ last'.a = 8452) =>
              Get(ppu'.oam, ppu.oamAddress) = last'.v]_vars

-----------------------------------------------------------------------------
(* SpecRender: the host sets up two background layers and the sprites      *)
(* through the PPU ports, register by register, in order, each register   *)
(* with the scenario's value or a variant of it, and has the PPU draw a    *)
(* line once the backgrounds are set up and once more at the end.          *)

\* the columns of the line the host looks at: 0..MaxColumn
MaxColumn == 11

Columns == 0 .. MaxColumn

\* the port writes of the scenario, in order, each with its variants; an
\* empty entry is a ppu.renderScanline() call
RenderScript ==
    << {<<8453, 1>>, <<8453, 2>>},          \* 0x2105 BGMODE: mode 1, mode 2
       {<<8492, 3>>, <<8492, 2>>},          \* 0x212C main screen: BG1+BG2, BG2
       {<<8455, 4>>},                       \* 0x2107 BG1 tilemap at 0x0400
       {<<8456, 8>>},                       \* 0x2108 BG2 tilemap at 0x0800
       {<<8470, 16>>},                      \* 0x2116 VRAM address 0x0010: tile 1
       {<<8472, 255>>},                     \* 0x2118 row 0: colour index 1
       {<<8472, 255>>, <<8472, 15>>},       \* 0x2118 row 1
       {<<8470, 0>>}, {<<8471, 4>>},        \* VRAM address 0x0400
       {<<8473, 0>>, <<8473, 32>>},         \* 0x2119 BG1 entry: priority bit
       {<<8472, 1>>},                       \* 0x2118 BG1 entry: tile 1
       {<<8470, 0>>}, {<<8471, 8>>},        \* VRAM address 0x0800
       {<<8473, 32>>, <<8473, 0>>},         \* 0x2119 BG2 entry: priority bit
       {<<8472, 1>>},                       \* 0x2118 BG2 entry: tile 1
       {},                                  \* line 0
       {<<8470, 0>>}, {<<8471, 96>>},       \* VRAM address 0x6000: sprite tile 0
       {<<8472, 255>>},                     \* 0x2118 row 0
       {<<8472, 255>>},                     \* 0x2118 row 1: colour index 1
       {<<8452, 0>>, <<8452, 4>>},          \* 0x2104 sprite 0: x
       {<<8452, 0>>},                       \*   y
       {<<8452, 0>>},                       \*   tile
       {<<8452, 2>>, <<8452, 34>>},         \*   palette 1; priority 0 or 2
       {<<8481, 129>>},                     \* 0x2121 colour 1 of palette 8
       {<<8482, 31>>}, {<<8482, 0>>},       \* 0x2122 red
       {<<8481, 145>>},                     \* 0x2121 colour 1 of palette 9
       {<<8482, 224>>}, {<<8482, 3>>},      \* 0x2122 green
       {} >>                                \* line 1

\* ppu.renderScanline() on a visible line; the host then sees the pixel
\* buffers of the line at Columns
RenderLine ==
    /\ ppu.scanline < screenHeight
    /\ \E row \in {[x \in Columns |-> renderPixel(ppu, ppu.scanline, x)]} :
           LET done(c) == Commit(c, Call("renderScanline", ppu.scanline, 0, row, c))
           IN  done([Ctx EXCEPT !.m.ppu = renderScanline(@)])

NextRender ==
    \/ /\ calls + 1 \in DOMAIN RenderScript
       /\ \E w \in RenderScript[calls + 1] : BusWrite(w[1], w[2])
    \/ /\ calls + 1 \in DOMAIN RenderScript
       /\ RenderScript[calls + 1] = {}
       /\ RenderLine

SpecRender == Init /\ [][NextRender]_vars

\* the layers of the current mode that are on the main screen and have a
\* non-zero colour index at column x of line y, in drawing order, each with
\* its candidate priority: the rank of the mode table plus twice bit 13 of
\* its tilemap entry
C35_Candidates(y, x) ==
    LET layers == modeLayers[ppu.bgMode + 1]
        drawn == {i \in 1 .. Len(layers) :
                      /\ Bit(ppu.mainScreenDesignation, layers[i][1])
                      /\ tilePixel(ppu, layers[i][1], y, x, layers[i][2]).colorIndex # 0}
    IN  [i \in drawn |->
            [bgIndex |-> layers[i][1],
             priority |-> layers[i][3]
                 + (IF Bit(tilePixel(ppu, layers[i][1], y, x, layers[i][2]).tileEntry, 13)
                    THEN 2 ELSE 0)]]

\* the recorded priority and layer after the candidates from the i-th on
\* have been compared, each written when its priority is at least the
\* recorded one
RECURSIVE C35_Recorded(_, _, _)
C35_Recorded(cand, i, rec) ==
    IF i > 4 THEN rec
    ELSE C35_Recorded(cand, i + 1,
                      IF i \in DOMAIN cand /\ cand[i].priority >= rec.priority
                      THEN [priority |-> cand[i].priority, layer |-> cand[i].bgIndex]
                      ELSE rec)

\* some sprite has a non-zero colour index at column x of line y
C35_SpriteAt(y, x) == \E s \in 0 .. 127 : spritePixel(ppu, s, y, x).colorIndex # 0

\* C35: on every visible scanline a background pixel with a non-zero colour
\* index is written only if its candidate priority (the layer's rank in the
\* mode table plus twice the priority bit 13 of its tilemap entry) is at
\* least the priority recorded for that pixel, and the recorded priority
\* becomes that candidate; so a tile with priority bit 1 of a lower-ranked
\* layer wins over a tile with priority bit 0 of the layer ranked one
\* higher.  Seen on the pixels no sprite covers: the recorded priority and
\* layer are the ones the comparisons leave.
C35_BackgroundPriority ==
    [][(last'.op = "renderScanline") =>
           \A x \in Columns :
               ~C35_SpriteAt(ppu.scanline, x) =>
                   LET rec == C35_Recorded(C35_Candidates(ppu.scanline, x), 1,
                                           [priority |-> 0, layer |-> 0])
                   IN  /\ last'.ret[x].priority = rec.priority
                       /\ last'.ret[x].layer = rec.layer]_vars

\* the sprites with a non-zero colour index at column x of line y
C36_Opaque(y, x) == {s \in 0 .. 127 : spritePixel(ppu, s, y, x).colorIndex # 0}

\* the colour of sprite s at column x of line y
C36_Colour(s, y, x) ==
    LET px == spritePixel(ppu, s, y, x)
    IN  getColor(ppu, px.palette * 16 + px.colorIndex)

\* the least element of a set of numbers
C36_Min(S) == CHOOSE s \in S : \A t \in S : s <= t

\* C36: when two sprites of equal priority both have an opaque pixel at the
\* same position, the pixel shown is that of the lower-index sprite; an
\* opaque sprite pixel is compared with rank (sprite priority + 10), so it
\* is drawn over any background pixel.  Seen at full brightness: where
\* sprites are opaque the recorded priority is a sprite's rank, and where
\* all of them have one priority the colour is that of the lowest of them.
C36_SpritePriority ==
    [][(last'.op = "renderScanline" /\ ppu.brightness = 15) =>
           \A x \in Columns :
               LET opaque == C36_Opaque(ppu.scanline, x)
                   shown == C36_Colour(C36_Min(opaque), ppu.scanline, x)
               IN  opaque # {} =>
                       /\ last'.ret[x].priority >= 10
                       /\ (\A s, t \in opaque :
                               spritePixel(ppu, s, ppu.scanline, x).priority
                                   = spritePixel(ppu, t, ppu.scanline, x).priority) =>
                              /\ last'.ret[x].r = shown.r
                              /\ last'.ret[x].g = shown.g
                              /\ last'.ret[x].b = shown.b]_vars

\* the word above the stack pointer before the last step: what RTS and RTL
\* pop as the return address
C39_ReturnWord ==
    ReadVal(Machine, obs.steps[1].cpu.registers.SP + 1)
        + 256 * ReadVal(Machine, obs.steps[1].cpu.registers.SP + 2)

\* C39: in every state reachable from reset() by step() calls, PC is in
\* 0..0xFFFF and PB is in 0..0xFF, so every instruction fetch reads the byte
\* at (PB << 16) | PC inside bank PB; in particular RTS or RTL popping the
\* return word 0xFFFF yields PC = 0x0000.
C39_PcStaysInBank ==
    /\ cpu.registers.PC \in 0 .. 65535
    /\ cpu.registers.PB \in 0 .. 255
    /\ ((Stepped(96) \/ Stepped(107)) /\ C39_ReturnWord = 65535) =>
           cpu.registers.PC = 0

\* C37: for any sequence of start(), pause(), resume() and stop() calls
\* interleaved in any order with the firing of pending setTimeout and
\* requestAnimationFrame callbacks, at most one frame-loop chain is alive:
\* while the emulator runs there is never more than one pending timer or
\* animation-frame callback, each of which would run a frame (in particular
\* after pause() followed by resume() before the pacing timer fires).
C37_OneFrameLoopChain ==
    snes.running => host.timers + Cardinality(host.rafs) <= 1

-----------------------------------------------------------------------------
(* SpecQuantum: the CPU quantum of a scanline.  The host loads a ROM whose *)
(* program loops at 0x8000, then runScanline is run scanline after         *)
(* scanline and the host sees how the loop of each went.                   *)

MaxQuantumCalls == 40

\* fourteen NOPs and JMP $8000; LDA #$42, STA $2100, BRA -2; a program of
\* operands the default case takes for opcodes, JMP $8000; the program whose
\* DMA throws on every scanline; JMP long and JMP to themselves
QuantumPrograms ==
    { <<234, 234, 234, 234, 234, 234, 234, 234, 234, 234, 234, 234, 234, 234,
        76, 0, 128>>,
      BootProgram,
      <<49, 50, 51, 63, 121, 76, 0, 128>>,
      ThrowingProgram } \cup LoopPrograms

\* one runScanline(); the call record holds the number of cpu.step() calls
\* of its loop, the cycles the last of them returned, whether one returned
\* no cycle, and the cycles added to the master clock
QuantumScanline ==
    /\ mem.hasRom
    /\ \E q \in {scanlineQuantum(Ctx)} :
           \E c \in {endScanline(q)} :
               Commit(c, Call("runScanline",
                              cpu.registers.PB * 65536 + cpu.registers.PC, 0,
                              [steps |-> q.steps, last |-> q.last,
                               stalled |-> q.stalled,
                               added |-> c.snes.masterClock - snes.masterClock],
                              c))

NextQuantum ==
    \/ calls < MaxSetupCalls /\ \E p \in QuantumPrograms : LoadROM(LoopImage(p))
    \/ calls < MaxQuantumCalls /\ QuantumScanline

SpecQuantum == Init /\ [][NextQuantum]_vars

\* C38: every call of runScanline terminates: each cpu.step() returns at
\* least 1 cycle (or throws and ends the quantum), so the CPU quantum ends
\* after at most 227 step() calls, and the cycles added to the master clock
\* for a scanline are at least 227 and exceed 227 by less than the cycle
\* count of one instruction (the last one of the quantum).
C38_QuantumEnds ==
    last.op = "runScanline" =>
        /\ ~last.ret.stalled
        /\ last.ret.steps \in 1 .. CPU_CYCLES_PER_SCANLINE
        /\ last.ret.added >= CPU_CYCLES_PER_SCANLINE
        /\ \/ last.ret.added = CPU_CYCLES_PER_SCANLINE
           \/ last.ret.added - CPU_CYCLES_PER_SCANLINE < last.ret.last

\* a scanline of more than 200 instructions whose last one passed the end
\* of the quantum
C38_QuantumOverrun ==
    /\ last.op = "runScanline"
    /\ last.ret.steps > 200
    /\ last.ret.added > CPU_CYCLES_PER_SCANLINE

====
